---------------------------- MODULE Spec2Model ----------------------------
(***************************************************************************)
(* Model of scripts/sysinfo.py: the NUMA topology reader, the cache        *)
(* optimizer, the cluster builder and the two CPU pinning generators.      *)
(*                                                                         *)
(* Every operation of the program is a pure function of its arguments and  *)
(* of the sysfs tree it reads, so each one is an operator that follows the *)
(* code statement by statement, and one action that applies it to inputs   *)
(* drawn in the initial state.  The command path of main is stepwise.      *)
(***************************************************************************)
EXTENDS Integers, Sequences, FiniteSets, TLC

VARIABLES
    pc,               \* where the modelled call or command stands
    cachefs,          \* cpu id -> the cache/index<K>/id files of that cpu, by K
    nodes_in,         \* the list of NodeInfo handed to the operation
    nodes,            \* the same NodeInfo objects after the operation ran
    cache_level,      \* cache_level / optimize_cache_level / --cache
    clusters,         \* list of clusters (each a list of NodeInfo)
    warnings,         \* what the operation printed as a warning or an error
    raised,           \* the exception that left the operation, or NoExc
    nodes_per_round,  \* argument of ping_pong_pinning / X of --pin_ping_pong
    cpu_list,         \* the pinning sequence returned
    visited,          \* the nodes ping_pong_pinning visited: <<smt_pos, cluster, node>>
    exit_code,        \* what main returned, NotExited before
    io_log,           \* the reads of the topology and writes of the output file
    sysfs,            \* the node tree and the sibling files get_nodes_info reads
    lookup_id,        \* the logical_id handed to a lookup
    logical_ids,      \* what _get_cpus_logical_ids returned
    cache_info,       \* what _get_cache_info returned
    cluster_file,     \* the lines save_cluster_info wrote to the file
    saved,            \* what save_cluster_info returned
    max_rows,         \* MemoryMonitor.max_rows
    batch_size,       \* MemoryMonitor.batch_size
    process,          \* the monitored child: not started, running or exited
    step,             \* _monitor_process: step
    row_count,        \* _monitor_process: row_count
    memory_batch,     \* _monitor_process: the Step of the samples in memory_batch
    csv_rows,         \* the Step of the data rows written to the CSV file
    locals            \* the loop variables of a ping_pong_pinning call run step by step

\* the state of the lookups and of save_cluster_info
fileVars == <<lookup_id, logical_ids, cache_info, cluster_file, saved>>

\* the state of the memory monitor
monitorVars == <<max_rows, batch_size, process, step, row_count, memory_batch, csv_rows>>

vars == <<pc, cachefs, nodes_in, nodes, cache_level, clusters, warnings,
          raised, nodes_per_round, cpu_list, visited, exit_code, io_log, sysfs,
          fileVars, monitorVars, locals>>

-----------------------------------------------------------------------------
(* Bounds of the model *)

MaxCores == 2          \* core tuples per node
MaxCacheLevels == 2    \* cache index directories per cpu
MaxNodes == 3          \* nodes handed to get_clusters
MaxDistLen == 2        \* entries of a distance vector
MaxPinNodes == 4       \* nodes in all clusters handed to a pinning generator
MaxClusters == 2       \* clusters handed to a pinning generator
MaxNpr == 2            \* nodes_per_round
MaxRows == 3           \* max_rows of the memory monitor
MaxBatch == 3          \* batch_size of the memory monitor

\* values a cache id file can hold
CacheIdValues == {0, 1}
\* values a distance entry can hold
DistValues == {10, 20}

-----------------------------------------------------------------------------
(* Generic helpers *)

NoExc == "none"
ValueError == "ValueError"

\* the value of sysfs in the runs that read no node tree
NoSysfs == <<>>

\* main has not returned yet
NotExited == "running"

\* self.process is None
NoProcess == "None"

\* the lookups and save_cluster_info have not run
FilesIdle ==
    /\ lookup_id = 0
    /\ logical_ids = <<>>
    /\ cache_info = <<>>
    /\ cluster_file = <<>>
    /\ saved = FALSE

\* no ping_pong_pinning call is running step by step
NoLocals == <<>>

\* no memory monitor has been constructed
MonitorIdle ==
    /\ max_rows = 0
    /\ batch_size = 0
    /\ process = NoProcess
    /\ step = 0
    /\ row_count = 0
    /\ memory_batch = <<>>
    /\ csv_rows = <<>>

\* None of Python, for an optional string key
None == "None"

\* float('inf'): above every distance entry
Inf == 1000000

SeqsUpTo(S, n) == UNION {[1..k -> S] : k \in 0..n}

Range(s) == {s[i] : i \in DOMAIN s}

\* list.sort / sorted: a stable sort, Le(a, b) is key(a) <= key(b)
StableSort(s, Le(_, _)) ==
    LET Insert(t, x) ==
            LET k == Cardinality({j \in 1..Len(t) : Le(t[j], x)})
            IN  SubSeq(t, 1, k) \o <<x>> \o SubSeq(t, k + 1, Len(t))
        f[i \in 0..Len(s)] == IF i = 0 THEN <<>> ELSE Insert(f[i - 1], s[i])
    IN  f[Len(s)]

\* a for loop over the list s: acc = Body(acc, item) for every item in order
ForEach(Body(_, _), init, s) ==
    LET f[i \in 0..Len(s)] == IF i = 0 THEN init ELSE Body(f[i - 1], s[i])
    IN  f[Len(s)]

NodeInfo(id, memory, cores_list, distance) ==
    [id |-> id, memory |-> memory, cores_list |-> cores_list, distance |-> distance]

-----------------------------------------------------------------------------
(* _get_cache_info *)

\* one cache/index<K>/id file: readable with an integer, unreadable, or
\* readable with content int() rejects
IdFile(v) == [k |-> "id", v |-> v]
IoErrFile == [k |-> "ioerr", v |-> 0]
BadFile == [k |-> "bad", v |-> 0]

\* one pass of the loop over cache_dirs: an IOError ends the loop keeping
\* what was read, a ValueError is not caught
ReadCacheId(acc, file) ==
    IF acc.stop \/ acc.raised # NoExc THEN acc
    ELSE IF file.k = "ioerr" THEN [acc EXCEPT !.stop = TRUE]
    ELSE IF file.k = "bad" THEN [acc EXCEPT !.raised = ValueError]
    ELSE [acc EXCEPT !.val = Append(acc.val, file.v)]

\* the files are read in index order
GetCacheInfo(fs, logical_id) ==
    LET files == IF logical_id \in DOMAIN fs THEN fs[logical_id] ELSE <<>>
        Done(r) == [raised |-> r.raised, val |-> r.val]
    IN  Done(ForEach(ReadCacheId, [raised |-> NoExc, stop |-> FALSE, val |-> <<>>], files))

-----------------------------------------------------------------------------
(* optimize_cache_nodes *)

\* the skip test of the loop body, given the cache ids read
CacheSkip(cache_ids, level) == cache_ids = <<>> \/ level >= Len(cache_ids)

\* the sort key (cache_id, first_logical_id), compared as Python tuples
CacheKeyLeByCacheOnly(a, b) == a.cache_id <= b.cache_id

CacheKeyLe(a, b) ==
    \/ a.cache_id < b.cache_id
    \/ a.cache_id = b.cache_id /\ a.first_logical_id <= b.first_logical_id

\* one pass of the loop over node.cores_list, given the result c of
\* _get_cache_info(core_tuple[0])
KeepCore(acc, core_tuple, c, level) ==
    IF c.raised # NoExc THEN [acc EXCEPT !.raised = c.raised]
    ELSE IF CacheSkip(c.val, level) THEN acc
    ELSE [acc EXCEPT !.val = Append(acc.val,
             [core_tuple |-> core_tuple,
              cache_id |-> c.val[level + 1],
              first_logical_id |-> core_tuple[1]])]

\* the loop over node.cores_list building cores_with_cache
CoresWithCache(fs, cores_list, level) ==
    LET Body(acc, core_tuple) ==
            IF acc.raised # NoExc THEN acc
            ELSE IF core_tuple = <<>> THEN acc
            ELSE KeepCore(acc, core_tuple, GetCacheInfo(fs, core_tuple[1]), level)
    IN  ForEach(Body, [raised |-> NoExc, val |-> <<>>], cores_list)

\* the sort and the assignment to node.cores_list, or the exception
ReplaceCoresAndDistance(node, cwc) ==
    IF cwc.raised # NoExc THEN [raised |-> cwc.raised, node |-> node]
    ELSE LET Sorted(t) == [i \in 1..Len(t) |-> t[i].core_tuple]
         IN  [raised |-> NoExc,
              node |-> [node EXCEPT !.cores_list = Sorted(StableSort(cwc.val, CacheKeyLe)),
                                    !.distance = <<>>]]

ReplaceCores(node, cwc) ==
    IF cwc.raised # NoExc THEN [raised |-> cwc.raised, node |-> node]
    ELSE LET Sorted(t) == [i \in 1..Len(t) |-> t[i].core_tuple]
         IN  [raised |-> NoExc,
              node |-> [node EXCEPT !.cores_list = Sorted(StableSort(cwc.val, CacheKeyLe))]]

\* returns the exception raised (if any) and the node object as it is left
OptimizeCacheNodes(fs, node, level) ==
    IF level < 0 THEN [raised |-> NoExc, node |-> node]
    ELSE ReplaceCores(node, CoresWithCache(fs, node.cores_list, level))

-----------------------------------------------------------------------------
(* get_clusters *)

NoMemoryWarning == "Warning: No memory nodes found!"

\* memory_nodes = [node for node in nodes if node.memory]
MemoryNodes(ns) == SelectSeq(ns, LAMBDA n : n.memory)

\* str(mem_node.id): the dict key
StrId(id) == ToString(id)

\* a dict as the sequence of its items in insertion order
DictHas(d, key) == \E j \in 1..Len(d) : d[j].key = key

DictSet(d, key, val) ==
    IF DictHas(d, key)
    THEN [j \in 1..Len(d) |-> IF d[j].key = key THEN [d[j] EXCEPT !.val = val] ELSE d[j]]
    ELSE Append(d, [key |-> key, val |-> val])

DictGet(d, key) == d[CHOOSE j \in 1..Len(d) : d[j].key = key].val

DictValues(d) == [j \in 1..Len(d) |-> d[j].val]

\* clusters = {str(mem_node.id): [mem_node] for mem_node in memory_nodes}
SeedClusters(memory_nodes) ==
    LET Body(d, mem_node) == DictSet(d, StrId(mem_node.id), <<mem_node>>)
    IN  ForEach(Body, <<>>, memory_nodes)

\* node.distance[j] exists (Python lists are 0-based)
HasDistance(node, j) == j < Len(node.distance)

DistanceTo(node, j) == node.distance[j + 1]

\* the test that replaces the closest anchor found so far
CloserOrEqual(dist, min_dist) == dist <= min_dist

Closer(dist, min_dist) == dist < min_dist

\* one pass of the scan of memory_nodes for a non-memory node
ScanMemNode(acc, node, mem_node) ==
    IF HasDistance(node, mem_node.id)
       /\ Closer(DistanceTo(node, mem_node.id), acc.min_dist)
    THEN [min_dist |-> DistanceTo(node, mem_node.id),
          closest_mem_id |-> StrId(mem_node.id)]
    ELSE acc

\* the scan of memory_nodes for one non-memory node: closest_mem_id
ClosestMemId(node, memory_nodes) ==
    LET Body(acc, mem_node) == ScanMemNode(acc, node, mem_node)
    IN  ForEach(Body, [min_dist |-> Inf, closest_mem_id |-> None], memory_nodes).closest_mem_id

\* if closest_mem_id: clusters[closest_mem_id].append(node)
AppendToClosest(d, node, closest_mem_id) ==
    IF closest_mem_id # None /\ closest_mem_id # ""
    THEN DictSet(d, closest_mem_id, Append(DictGet(d, closest_mem_id), node))
    ELSE d

\* the loop appending every non-memory node to the cluster of its closest anchor
AssignNodes(ns, memory_nodes, seeded) ==
    LET Body(d, node) ==
            IF node.memory THEN d
            ELSE AppendToClosest(d, node, ClosestMemId(node, memory_nodes))
    IN  ForEach(Body, seeded, ns)

\* the sort key of a member: its distance to the anchor, inf without an entry
MemberKey(x, memory_node) ==
    IF HasDistance(x, memory_node.id) THEN DistanceTo(x, memory_node.id) ELSE Inf

\* cluster[1:] = sorted(cluster[1:], key=...), skipped for len(cluster) <= 1
SortClusterReversed(cluster) ==
    IF Len(cluster) <= 1 THEN cluster
    ELSE LET memory_node == cluster[1]
             Ge(a, b) == MemberKey(a, memory_node) >= MemberKey(b, memory_node)
         IN  <<memory_node>> \o StableSort(Tail(cluster), Ge)

SortCluster(cluster) ==
    IF Len(cluster) <= 1 THEN cluster
    ELSE LET memory_node == cluster[1]
             Le(a, b) == MemberKey(a, memory_node) <= MemberKey(b, memory_node)
         IN  <<memory_node>> \o StableSort(Tail(cluster), Le)

SortClusters(d) == [j \in 1..Len(d) |-> [d[j] EXCEPT !.val = SortCluster(d[j].val)]]

\* the positions (cluster, index) in the order the optimization loop visits them
Positions(cs) ==
    LET Body(acc, c) == acc \o [i \in 1..Len(cs[c]) |-> <<c, i>>]
    IN  ForEach(Body, <<>>, [c \in 1..Len(cs) |-> c])

\* cluster[i] = self.optimize_cache_nodes(cluster[i], level); the node object
\* is reordered in place, an exception leaves the loops
OptimizeMember(acc, c, i, r) ==
    [raised |-> r.raised, clusters |-> [acc.clusters EXCEPT ![c][i] = r.node]]

OptimizeClusters(fs, cs, level) ==
    IF level < 0 THEN [raised |-> NoExc, clusters |-> cs]
    ELSE LET Body(acc, at) ==
                 IF acc.raised # NoExc THEN acc
                 ELSE OptimizeMember(acc, at[1], at[2],
                          OptimizeCacheNodes(fs, acc.clusters[at[1]][at[2]], level))
         IN  ForEach(Body, [raised |-> NoExc, clusters |-> cs], Positions(cs))

\* the NodeInfo objects of the input list as the call leaves them: the
\* clusters hold the same objects, reordered in place by the optimizer
ObjectsAfter(ns, cs) ==
    LET members == UNION {Range(cs[c]) : c \in 1..Len(cs)}
    IN  [i \in 1..Len(ns) |->
            IF \E m \in members : m.id = ns[i].id
            THEN CHOOSE m \in members : m.id = ns[i].id
            ELSE ns[i]]

\* the part of get_clusters after the clusters are seeded, assigned and sorted
FinishClusters(ns, opt) ==
    [raised |-> opt.raised,
     clusters |-> IF opt.raised = NoExc THEN opt.clusters ELSE <<>>,
     nodes |-> ObjectsAfter(ns, opt.clusters),
     warnings |-> {}]

\* return [nodes]: what a list without memory nodes gives
NoMemoryClustersOnePerNode(ns) == [i \in 1..Len(ns) |-> <<ns[i]>>]

NoMemoryClusters(ns) == <<ns>>

\* get_clusters(nodes, optimize_cache_level) for a given list of nodes
GetClusters(fs, ns, level) ==
    IF ns = <<>>
    THEN [raised |-> NoExc, clusters |-> <<>>, nodes |-> ns, warnings |-> {}]
    ELSE IF MemoryNodes(ns) = <<>>
    THEN [raised |-> NoExc, clusters |-> NoMemoryClusters(ns), nodes |-> ns,
          warnings |-> {NoMemoryWarning}]
    ELSE FinishClusters(ns,
             OptimizeClusters(fs,
                 DictValues(SortClusters(
                     AssignNodes(ns, MemoryNodes(ns), SeedClusters(MemoryNodes(ns))))),
                 level))

-----------------------------------------------------------------------------
(* cluster_first_pinning and ping_pong_pinning *)

\* every core tuple of every node of every cluster, in nesting order
AllCores(cs) ==
    LET OfCluster(acc, cluster) ==
            LET OfNode(a, node) == a \o node.cores_list
            IN  ForEach(OfNode, acc, cluster)
    IN  ForEach(OfCluster, <<>>, cs)

\* max(len(core) for cluster in clusters for node in cluster for core in
\* node.cores_list): max() of an empty sequence raises ValueError
MaxSmt(cs) ==
    LET Widest(m, core) == IF Len(core) > m THEN Len(core) ELSE m
        Result(cores) ==
            IF cores = <<>> THEN [raised |-> ValueError, val |-> 0]
            ELSE [raised |-> NoExc, val |-> ForEach(Widest, 0, cores)]
    IN  Result(AllCores(cs))

\* for core in node.cores_list: if smt_pos < len(core): append core[smt_pos]
AppendNodeSlot(cpus, node, smt_pos) ==
    LET Body(acc, core) == IF smt_pos < Len(core) THEN Append(acc, core[smt_pos + 1]) ELSE acc
    IN  ForEach(Body, cpus, node.cores_list)

\* the early return of cluster_first_pinning
ClusterFirstGuard(cs) ==
    cs = <<>> \/ cs[1] = <<>> \/ cs[1][1].cores_list = <<>>

\* the four nested loops of cluster_first_pinning
ClusterFirstLoops(cs, max_smt) ==
    LET OfSlot(acc, smt_pos) ==
            LET OfCluster(a, cluster) ==
                    LET OfNode(b, node) == AppendNodeSlot(b, node, smt_pos)
                    IN  ForEach(OfNode, a, cluster)
            IN  ForEach(OfCluster, acc, cs)
    IN  ForEach(OfSlot, <<>>, [k \in 1..max_smt |-> k - 1])

ClusterFirstPinning(cs) ==
    IF ClusterFirstGuard(cs) THEN [raised |-> NoExc, cpu_list |-> <<>>]
    ELSE LET Run(m) ==
                 IF m.raised # NoExc THEN [raised |-> m.raised, cpu_list |-> <<>>]
                 ELSE [raised |-> NoExc, cpu_list |-> ClusterFirstLoops(cs, m.val)]
         IN  Run(MaxSmt(cs))

\* the early return of ping_pong_pinning
PingPongGuard(cs, npr) == cs = <<>> \/ npr <= 0

\* any(...) looking at the first cluster only
AnyLeftInFirst(cs, cluster_positions) ==
    cluster_positions[1] < Len(cs[1])

\* any(pos < len(cluster) for pos, cluster in zip(cluster_positions, clusters))
AnyLeft(cs, cluster_positions) ==
    \E c \in 1..Len(cs) : cluster_positions[c] < Len(cs[c])

\* the condition of the inner while loop
InnerCondOneMore(nodes_processed, npr, position, cluster) ==
    nodes_processed <= npr /\ position < Len(cluster)

InnerCond(nodes_processed, npr, position, cluster) ==
    nodes_processed < npr /\ position < Len(cluster)

\* the body of the inner while loop: one node of cluster c (1-based here) is
\* visited and the cursor of the cluster moves on
VisitNode(acc, cs, c, smt_pos) ==
    [cpu_list |-> AppendNodeSlot(acc.cpu_list, cs[c][acc.cluster_positions[c] + 1], smt_pos),
     cluster_positions |-> [acc.cluster_positions EXCEPT ![c] = @ + 1],
     visited |-> Append(acc.visited, <<smt_pos, c - 1, acc.cluster_positions[c]>>)]

\* the inner while loop for cluster c, nodes_processed nodes done so far
RECURSIVE InnerWhile(_, _, _, _, _, _)
InnerWhile(acc, cs, npr, c, smt_pos, nodes_processed) ==
    IF InnerCond(nodes_processed, npr, acc.cluster_positions[c], cs[c])
    THEN InnerWhile(VisitNode(acc, cs, c, smt_pos), cs, npr, c, smt_pos, nodes_processed + 1)
    ELSE acc

\* for cluster_idx, cluster in enumerate(clusters): one round
Round(acc, cs, npr, smt_pos) ==
    LET Body(a, c) == InnerWhile(a, cs, npr, c, smt_pos, 0)
    IN  ForEach(Body, acc, [c \in 1..Len(cs) |-> c])

\* the outer while loop of one SMT position
RECURSIVE OuterWhile(_, _, _, _)
OuterWhile(acc, cs, npr, smt_pos) ==
    IF AnyLeft(cs, acc.cluster_positions)
    THEN OuterWhile(Round(acc, cs, npr, smt_pos), cs, npr, smt_pos)
    ELSE acc

\* for smt_pos in range(max_smt): cluster_positions = [0] * len(clusters); ...
PingPongLoops(cs, npr, max_smt) ==
    LET OfSlot(acc, smt_pos) ==
            OuterWhile([acc EXCEPT !.cluster_positions = [c \in 1..Len(cs) |-> 0]],
                       cs, npr, smt_pos)
    IN  ForEach(OfSlot,
                [cpu_list |-> <<>>, cluster_positions |-> <<>>, visited |-> <<>>],
                [k \in 1..max_smt |-> k - 1])

PingPongPinning(cs, npr) ==
    IF PingPongGuard(cs, npr) THEN [raised |-> NoExc, cpu_list |-> <<>>, visited |-> <<>>]
    ELSE LET Run(m) ==
                 IF m.raised # NoExc
                 THEN [raised |-> m.raised, cpu_list |-> <<>>, visited |-> <<>>]
                 ELSE LET Out(r) == [raised |-> NoExc, cpu_list |-> r.cpu_list,
                                     visited |-> r.visited]
                      IN  Out(PingPongLoops(cs, npr, m.val))
         IN  Run(MaxSmt(cs))

-----------------------------------------------------------------------------
(* _get_cpus_logical_ids and get_nodes_info *)

IOError == "IOError"

\* a file: readable with content that parses to val, missing or unreadable,
\* or readable with content the parser rejects with ValueError
OkFile(val) == [k |-> "ok", val |-> val]
MissingFile == [k |-> "ioerr", val |-> <<>>]
MalformedFile == [k |-> "bad", val |-> <<>>]
\* readable with nothing in it (or only white space)
EmptyFile == [k |-> "empty", val |-> <<>>]

\* a cpulist file "a-b": the '-' branch, list(range(start, end + 1))
RangeFile(start, end) == [k |-> "range", val |-> <<start, end>>]

NoMemoryInfoWarning == "Warning: Could not read memory node information"
NodeAccessError == "Error: Unable to access /sys/devices/system/node"
NodeWarning(node_id) == "Warning: Could not read node " \o ToString(node_id) \o " information"

\* open + read + parse of one file: the exception raised, or the value.
\* The parsers of cpulist (if i.strip()) and of distance (split()) turn empty
\* content into the empty list.
ReadFile(file) ==
    IF file.k = "ioerr" THEN [raised |-> IOError, val |-> <<>>]
    ELSE IF file.k = "bad" THEN [raised |-> ValueError, val |-> <<>>]
    ELSE IF file.k = "range"
    THEN [raised |-> NoExc,
          val |-> [i \in 1..(file.val[2] - file.val[1] + 1) |-> file.val[1] + i - 1]]
    ELSE [raised |-> NoExc, val |-> file.val]

\* [int(i) for i in f.read().strip().split(',')]: empty content splits into
\* [''] and int('') raises ValueError
ReadIntList(file) ==
    IF file.k = "empty" THEN [raised |-> ValueError, val |-> <<>>] ELSE ReadFile(file)

\* thread_siblings_list of a cpu: IOError gives [], ValueError is not caught
GetCpusLogicalIds(fs, logical_id) ==
    LET Caught(r) == IF r.raised = IOError THEN [raised |-> NoExc, val |-> <<>>] ELSE r
    IN  Caught(ReadIntList(IF logical_id \in DOMAIN fs.siblings
                        THEN fs.siblings[logical_id] ELSE MissingFile))

\* if siblings: the test that keeps the sibling tuple of a member cpu
KeepsSiblings(siblings) == siblings # <<>>

\* for core in cpus: siblings = ...; if siblings: cores_list.append(tuple(siblings))
SiblingTuples(fs, cpus) ==
    LET Body(acc, core) ==
            LET Add(r) ==
                    IF r.raised # NoExc THEN [acc EXCEPT !.raised = r.raised]
                    ELSE IF KeepsSiblings(r.val)
                    THEN [acc EXCEPT !.val = Append(acc.val, r.val)]
                    ELSE acc
            IN  IF acc.raised # NoExc THEN acc ELSE Add(GetCpusLogicalIds(fs, core))
    IN  ForEach(Body, [raised |-> NoExc, val |-> <<>>], cpus)

\* remove duplicates while preserving order
UniqueCores(cores_list) ==
    LET Body(unique_cores, core) ==
            IF core \in Range(unique_cores) THEN unique_cores
            ELSE Append(unique_cores, core)
    IN  ForEach(Body, <<>>, cores_list)

\* the try block of one node directory: the NodeInfo, or the exception that
\* makes the loop print a warning and continue
ReadNode(fs, node_id, memory_nodes) ==
    LET WithCores(cpus, distances, sib) ==
            IF sib.raised # NoExc THEN [raised |-> sib.raised, node |-> <<>>]
            ELSE [raised |-> NoExc,
                  node |-> NodeInfo(node_id, node_id \in memory_nodes,
                                    UniqueCores(sib.val), distances)]
        WithDistance(cpus, d) ==
            IF d.raised # NoExc THEN [raised |-> d.raised, node |-> <<>>]
            ELSE WithCores(cpus, d.val, SiblingTuples(fs, cpus))
        WithCpus(c) ==
            IF c.raised # NoExc THEN [raised |-> c.raised, node |-> <<>>]
            ELSE WithDistance(c.val, ReadFile(fs.node[node_id].distance))
    IN  WithCpus(ReadFile(fs.node[node_id].cpulist))

\* the loop over node_dirs
ReadNodes(fs, memory_nodes) ==
    LET Body(acc, node_id) ==
            LET Got(r) ==
                    IF r.raised # NoExc
                    THEN [acc EXCEPT !.warnings = @ \cup {NodeWarning(node_id)}]
                    ELSE [acc EXCEPT !.nodes = Append(@, r.node)]
            IN  Got(ReadNode(fs, node_id, memory_nodes))
    IN  ForEach(Body, [nodes |-> <<>>, warnings |-> {}], fs.node_dirs)

\* nodes.sort(key=lambda x: x.id)
SortById(ns) ==
    LET Le(a, b) == a.id <= b.id IN StableSort(ns, Le)

\* get_nodes_info(): the exception it raises, the list it returns and what
\* it prints
GetNodesInfo(fs) ==
    LET AfterMemory(memory_nodes, said) ==
            IF ~fs.node_root_ok
            THEN [raised |-> NoExc, nodes |-> <<>>, warnings |-> said \cup {NodeAccessError}]
            ELSE LET Done(r) == [raised |-> NoExc, nodes |-> SortById(r.nodes),
                                 warnings |-> said \cup r.warnings]
                 IN  Done(ReadNodes(fs, memory_nodes))
        WithMemory(m) ==
            IF m.raised = ValueError
            THEN [raised |-> ValueError, nodes |-> <<>>, warnings |-> {}]
            ELSE IF m.raised = IOError
            THEN AfterMemory({}, {NoMemoryInfoWarning})
            ELSE AfterMemory(Range(m.val), {})
    IN  WithMemory(ReadIntList(fs.has_memory))

-----------------------------------------------------------------------------
(* Runs of optimize_cache_nodes on one node *)

\* logical cpu ids of the optimizer runs
Cpus == {0, 1}

\* core tuples: empty, one thread, or two sibling threads in either order
OptTuples == {<<>>} \cup {<<c>> : c \in Cpus}
                \cup {<<p[1], p[2]>> : p \in {q \in Cpus \X Cpus : q[1] # q[2]}}

\* the id files of one cpu: readable ids, possibly ending in a file that
\* cannot be read or cannot be parsed
CacheFileLists ==
    LET kinds == {IdFile(v) : v \in CacheIdValues} \cup {IoErrFile, BadFile}
    IN  {s \in SeqsUpTo(kinds, MaxCacheLevels) :
            \A i \in 1..Len(s) : s[i].k # "id" => i = Len(s)}

InitOpt ==
    /\ pc = "opt_call"
    /\ cachefs \in [Cpus -> CacheFileLists]
    /\ \E cores \in SeqsUpTo(OptTuples, MaxCores) :
           nodes_in = <<NodeInfo(0, TRUE, cores, <<10>>)>>
    /\ nodes = nodes_in
    /\ cache_level \in -1..MaxCacheLevels
    /\ clusters = <<>>
    /\ warnings = {}
    /\ raised = NoExc
    /\ nodes_per_round = 0
    /\ cpu_list = <<>>
    /\ visited = <<>>
    /\ exit_code = NotExited
    /\ io_log = <<>>
    /\ FilesIdle
    /\ MonitorIdle
    /\ locals = NoLocals
    /\ sysfs = NoSysfs

\* node = optimize_cache_nodes(node, cache_level)
OptimizeCall ==
    /\ pc = "opt_call"
    /\ \E r \in {OptimizeCacheNodes(cachefs, nodes[1], cache_level)} :
       /\ nodes' = <<r.node>>
       /\ raised' = r.raised
       /\ pc' = IF r.raised = NoExc THEN "opt_returned" ELSE "opt_raised"
    /\ UNCHANGED <<fileVars, monitorVars, locals>>
    /\ UNCHANGED <<cachefs, nodes_in, cache_level, clusters, warnings,
                   nodes_per_round, cpu_list, visited, exit_code, io_log, sysfs>>

NextOpt == OptimizeCall

SpecOpt == InitOpt /\ [][NextOpt]_vars

-----------------------------------------------------------------------------
(* C8: what optimize_cache_nodes leaves in the node *)

Count(s, x) == Cardinality({i \in 1..Len(s) : s[i] = x})

\* the cache ids the program reads for the first logical id of a tuple
CacheIdsOfFirst(t) == GetCacheInfo(cachefs, t[1]).val

HasCacheIdAt(t, level) == t # <<>> /\ Len(CacheIdsOfFirst(t)) >= level + 1

\* C8: after optimize_cache_nodes(node, L) with L >= 0 returns, the core list
\* holds exactly the input tuples whose first logical id has a cache id at
\* level L, each as often as it was given, in non-decreasing order of
\* (cache id at L, first logical id); every other tuple is absent.
C8_OptimizeKeepsAndOrders ==
    (pc = "opt_returned" /\ cache_level >= 0) =>
        LET before == nodes_in[1].cores_list
            after == nodes[1].cores_list
        IN  /\ \A t \in Range(before) \cup Range(after) :
                   Count(after, t) = IF HasCacheIdAt(t, cache_level)
                                     THEN Count(before, t) ELSE 0
            /\ \A i \in 1..Len(after) : \A j \in i + 1..Len(after) :
                   LET ci == CacheIdsOfFirst(after[i])[cache_level + 1]
                       cj == CacheIdsOfFirst(after[j])[cache_level + 1]
                   IN  ci < cj \/ (ci = cj /\ after[i][1] <= after[j][1])

\* a run at level 1 that put the tuple of the higher first logical id first,
\* its cache id at level 1 being the lower one
C8_Witness ==
    /\ pc = "opt_returned"
    /\ cache_level = 1
    /\ Len(nodes_in[1].cores_list) = 2
    /\ nodes_in[1].cores_list[1] # <<>>
    /\ nodes_in[1].cores_list[2] # <<>>
    /\ nodes_in[1].cores_list[1][1] < nodes_in[1].cores_list[2][1]
    /\ nodes[1].cores_list = <<nodes_in[1].cores_list[2], nodes_in[1].cores_list[1]>>

\* a run that dropped a tuple for want of a cache id at the level
C8_WitnessDropped ==
    /\ pc = "opt_returned"
    /\ cache_level = 1
    /\ Len(nodes_in[1].cores_list) = 2
    /\ Len(nodes[1].cores_list) = 1
    /\ <<>> \notin Range(nodes_in[1].cores_list)

-----------------------------------------------------------------------------
(* Runs of get_clusters on a list of nodes *)

\* node ids of a list of n nodes, ascending or descending
IdOrders(n) == {[i \in 1..n |-> i - 1], [i \in 1..n |-> n - i]}

DistanceVectors == SeqsUpTo(DistValues, MaxDistLen)

\* the distance vector of a memory node, which get_clusters never reads
MemoryNodeDistance == [j \in 1..MaxDistLen |-> 10]

\* the cores of node id: two single-thread cores, higher logical id first
CoresOfNode(id) == <<<<2 * id + 1>>, <<2 * id>>>>

\* every cpu has one cache level, all cpus of a node sharing its cache id
ClusterCacheFs == [c \in 0..(2 * MaxNodes + 1) |-> <<IdFile(c \div 2)>>]

\* memory flag and distance vector of one node
NodeKinds ==
    {[memory |-> TRUE, distance |-> MemoryNodeDistance]}
        \cup {[memory |-> FALSE, distance |-> d] : d \in DistanceVectors}

\* the list of n nodes with the given ids and kinds
NodeList(n, ids, kind) ==
    [i \in 1..n |->
        NodeInfo(ids[i], kind[i].memory, CoresOfNode(ids[i]), kind[i].distance)]

InitClusters ==
    /\ pc = "clusters_call"
    /\ cachefs = ClusterCacheFs
    /\ \E n \in 0..MaxNodes : \E ids \in IdOrders(n) : \E kind \in [1..n -> NodeKinds] :
           nodes_in = NodeList(n, ids, kind)
    /\ nodes = nodes_in
    /\ cache_level \in {-1, 0}
    /\ clusters = <<>>
    /\ warnings = {}
    /\ raised = NoExc
    /\ nodes_per_round = 0
    /\ cpu_list = <<>>
    /\ visited = <<>>
    /\ exit_code = NotExited
    /\ io_log = <<>>
    /\ FilesIdle
    /\ MonitorIdle
    /\ locals = NoLocals
    /\ sysfs = NoSysfs

\* clusters = get_clusters(nodes, optimize_cache_level)
GetClustersCall ==
    /\ pc = "clusters_call"
    /\ \E r \in {GetClusters(cachefs, nodes, cache_level)} :
       /\ clusters' = r.clusters
       /\ nodes' = r.nodes
       /\ warnings' = warnings \cup r.warnings
       /\ raised' = r.raised
       /\ pc' = IF r.raised = NoExc THEN "clusters_returned" ELSE "clusters_raised"
    /\ UNCHANGED <<fileVars, monitorVars, locals>>
    /\ UNCHANGED <<cachefs, nodes_in, cache_level, nodes_per_round, cpu_list,
                   visited, exit_code, io_log, sysfs>>

NextClusters == GetClustersCall

SpecClusters == InitClusters /\ [][NextClusters]_vars

-----------------------------------------------------------------------------
(* C1, C2, C3: the clusters get_clusters returns *)

\* the anchors of the input and the place of a node id in the input order
Anchors == {nodes_in[i] : i \in {k \in 1..Len(nodes_in) : nodes_in[k].memory}}

InputIndex(id) == CHOOSE i \in 1..Len(nodes_in) : nodes_in[i].id = id

\* the distance entry of node n at node id j, infinite when there is none
EntryOrInf(n, j) == IF j < Len(n.distance) THEN n.distance[j + 1] ELSE Inf

ReturnedWithAnchors == pc = "clusters_returned" /\ Anchors # {}

\* the ids of the members of all returned clusters, as a sequence
ClusteredIds ==
    LET Body(acc, cluster) == acc \o [j \in 1..Len(cluster) |-> cluster[j].id]
    IN  ForEach(Body, <<>>, clusters)

\* C1: a non-memory node placed in the cluster of anchor A has an entry for
\* A, no other anchor is strictly nearer to it, and among the anchors at the
\* same minimal distance A is the first in the input order.
C1_NearestAnchorFirstOnTies ==
    ReturnedWithAnchors =>
        \A c \in 1..Len(clusters) : \A j \in 2..Len(clusters[c]) :
            LET A == clusters[c][1]
                N == clusters[c][j]
            IN  /\ EntryOrInf(N, A.id) < Inf
                /\ \A B \in {X \in Anchors : X.id # A.id} :
                       /\ ~(EntryOrInf(N, B.id) < EntryOrInf(N, A.id))
                       /\ EntryOrInf(N, B.id) = EntryOrInf(N, A.id)
                              => InputIndex(A.id) < InputIndex(B.id)

\* a node at equal distance of two anchors, placed with the one that comes
\* first in the input although its id is the higher one
C1_Witness ==
    /\ ReturnedWithAnchors
    /\ \E c \in 1..Len(clusters) : \E j \in 2..Len(clusters[c]) :
           \E B \in Anchors :
               /\ B.id < clusters[c][1].id
               /\ EntryOrInf(clusters[c][j], B.id) < Inf
               /\ EntryOrInf(clusters[c][j], B.id)
                      = EntryOrInf(clusters[c][j], clusters[c][1].id)

\* C2: with an anchor in the input, every returned cluster starts with its
\* only memory-capable node, and the members after it are in non-decreasing
\* order of their distance entry at the anchor's id (no entry: infinite).
C2_AnchorFirstMembersSorted ==
    ReturnedWithAnchors =>
        \A c \in 1..Len(clusters) :
            /\ Len(clusters[c]) >= 1
            /\ clusters[c][1].memory
            /\ \A j \in 2..Len(clusters[c]) : ~clusters[c][j].memory
            /\ \A i \in 2..Len(clusters[c]) : \A j \in i + 1..Len(clusters[c]) :
                   EntryOrInf(clusters[c][i], clusters[c][1].id)
                       <= EntryOrInf(clusters[c][j], clusters[c][1].id)

\* a cluster whose two members were given farther one first
C2_Witness ==
    /\ ReturnedWithAnchors
    /\ \E c \in 1..Len(clusters) :
           /\ Len(clusters[c]) = 3
           /\ InputIndex(clusters[c][3].id) < InputIndex(clusters[c][2].id)
           /\ EntryOrInf(clusters[c][2], clusters[c][1].id)
                  < EntryOrInf(clusters[c][3], clusters[c][1].id)

\* a node the clustering can place: memory-capable, or with an entry for an anchor
Placeable(n) == n.memory \/ \E B \in Anchors : B.id < Len(n.distance)

\* the clusters partition the input when every node is placeable, and a node
\* that is not placeable is in no cluster
ClustersPartitionPlaceable ==
    ReturnedWithAnchors =>
        /\ \A i \in 1..Len(nodes_in) :
               Count(ClusteredIds, nodes_in[i].id) = IF Placeable(nodes_in[i]) THEN 1 ELSE 0
        /\ \A k \in 1..Len(ClusteredIds) : \E i \in 1..Len(nodes_in) :
               nodes_in[i].id = ClusteredIds[k]

\* C3: the clusters partition the input node set when every node is
\* placeable; a non-memory node with no entry for any anchor is in no
\* cluster and its omission is reported as a warning.
C3_PartitionAndDropWarned ==
    ReturnedWithAnchors =>
        /\ ClustersPartitionPlaceable
        /\ (\E i \in 1..Len(nodes_in) : ~Placeable(nodes_in[i])) => warnings # {}

-----------------------------------------------------------------------------
(* Runs of the pinning generators and of the --pin_ping_pong command *)

\* SMT widths of the cores of one node: no core, one core, or a two-thread
\* core beside a one-thread core
PinCoreShapes == {<<>>, <<1>>, <<2, 1>>}

\* core tuples of the given widths, logical ids counted up from first
CoresFrom(first, widths) ==
    LET Body(acc, w) ==
            [next |-> acc.next + w,
             cores |-> Append(acc.cores, [t \in 1..w |-> acc.next + t - 1])]
    IN  ForEach(Body, [next |-> first, cores |-> <<>>], widths)

\* one node per shape, no logical id used twice
NodesOfShapes(shapes) ==
    LET Body(acc, k) ==
            LET Made(c) ==
                    [next |-> c.next,
                     nodes |-> Append(acc.nodes, NodeInfo(k - 1, FALSE, c.cores, <<>>))]
            IN  Made(CoresFrom(acc.next, shapes[k]))
    IN  ForEach(Body, [next |-> 0, nodes |-> <<>>], [k \in 1..Len(shapes) |-> k]).nodes

\* the list of nodes cut into clusters of the given sizes, the first node of
\* each cluster being its memory node
CutClusters(ns, sizes) ==
    LET Body(acc, size) ==
            [taken |-> acc.taken + size,
             clusters |-> Append(acc.clusters,
                 [j \in 1..size |->
                     [ns[acc.taken + j] EXCEPT !.memory = (j = 1)]])]
    IN  ForEach(Body, [taken |-> 0, clusters |-> <<>>], sizes).clusters

Sum(sizes) ==
    LET Body(acc, x) == acc + x IN ForEach(Body, 0, sizes)

InitPin ==
    /\ pc = "pin_call"
    /\ cachefs = <<>>
    /\ nodes_in = <<>>
    /\ nodes = <<>>
    /\ cache_level = -1
    /\ \E k \in 0..MaxClusters : \E sizes \in [1..k -> 0..MaxPinNodes] :
           /\ Sum(sizes) <= MaxPinNodes
           /\ \E shapes \in [1..Sum(sizes) -> PinCoreShapes] :
                  clusters = CutClusters(NodesOfShapes(shapes), sizes)
    /\ warnings = {}
    /\ raised = NoExc
    /\ nodes_per_round \in -1..MaxNpr
    /\ cpu_list = <<>>
    /\ visited = <<>>
    /\ exit_code = NotExited
    /\ io_log = <<>>
    /\ FilesIdle
    /\ MonitorIdle
    /\ locals = NoLocals
    /\ sysfs = NoSysfs

\* cpu_list = cluster_first_pinning(clusters)
ClusterFirstCall ==
    /\ pc = "pin_call"
    /\ \E r \in {ClusterFirstPinning(clusters)} :
           /\ cpu_list' = r.cpu_list
           /\ raised' = r.raised
           /\ pc' = IF r.raised = NoExc THEN "cf_returned" ELSE "cf_raised"
    /\ UNCHANGED <<fileVars, monitorVars, locals>>
    /\ UNCHANGED <<cachefs, nodes_in, nodes, cache_level, clusters, warnings,
                   nodes_per_round, visited, exit_code, io_log, sysfs>>

\* cpu_list = ping_pong_pinning(clusters, nodes_per_round)
PingPongCall ==
    /\ pc = "pin_call"
    /\ \E r \in {PingPongPinning(clusters, nodes_per_round)} :
           /\ cpu_list' = r.cpu_list
           /\ visited' = r.visited
           /\ raised' = r.raised
           /\ pc' = IF r.raised = NoExc THEN "pp_returned" ELSE "pp_raised"
    /\ UNCHANGED <<fileVars, monitorVars, locals>>
    /\ UNCHANGED <<cachefs, nodes_in, nodes, cache_level, clusters, warnings,
                   nodes_per_round, exit_code, io_log, sysfs>>

(* main, the branch of args.pin_ping_pong; clusters stands for what the     *)
(* topology holds, get_clusters reads it                                    *)

ErrorPositive == "Error: X must be a positive integer"
ErrorNotInt == "Error: invalid literal for int()"
ErrorNoClusters == "Error: No clusters found"
ErrorValue == "Error: ValueError"
ErrorUnexpected == "Unexpected error"

\* if x <= 0: raise ValueError("X must be a positive integer")
RejectsXNegativeOnly(x) == x < 0

RejectsX(x) == x <= 0

MainExit(code, message) ==
    /\ pc' = "main_exit"
    /\ exit_code' = code
    /\ warnings' = warnings \cup message

\* x = int(args.pin_ping_pong[1]) on a well-formed integer, and the test of x
MainParseX ==
    /\ pc = "pin_call"
    /\ IF RejectsX(nodes_per_round)
       THEN MainExit(1, {ErrorPositive})
       ELSE /\ pc' = "main_parsed"
            /\ UNCHANGED <<exit_code, warnings>>
    /\ UNCHANGED <<fileVars, monitorVars, locals>>
    /\ UNCHANGED <<cachefs, nodes_in, nodes, cache_level, clusters, raised,
                   nodes_per_round, cpu_list, visited, io_log, sysfs>>

\* x = int(args.pin_ping_pong[1]) on an argument that is no integer
MainParseFails ==
    /\ pc = "pin_call"
    /\ MainExit(1, {ErrorNotInt})
    /\ UNCHANGED <<fileVars, monitorVars, locals>>
    /\ UNCHANGED <<cachefs, nodes_in, nodes, cache_level, clusters, raised,
                   nodes_per_round, cpu_list, visited, io_log, sysfs>>

\* clusters = topology.get_clusters(...); if not clusters: return 1
MainGetClusters ==
    /\ pc = "main_parsed"
    /\ io_log' = Append(io_log, "read_topology")
    /\ IF clusters = <<>>
       THEN MainExit(1, {ErrorNoClusters})
       ELSE /\ pc' = "main_clusters"
            /\ UNCHANGED <<exit_code, warnings>>
    /\ UNCHANGED <<fileVars, monitorVars, locals>>
    /\ UNCHANGED <<cachefs, nodes_in, nodes, cache_level, clusters, raised,
                   nodes_per_round, cpu_list, visited, sysfs>>

\* get_clusters lets a ValueError of a cache id file through
MainGetClustersRaises ==
    /\ pc = "main_parsed"
    /\ io_log' = Append(io_log, "read_topology")
    /\ MainExit(1, {ErrorValue})
    /\ UNCHANGED <<fileVars, monitorVars, locals>>
    /\ UNCHANGED <<cachefs, nodes_in, nodes, cache_level, clusters, raised,
                   nodes_per_round, cpu_list, visited, sysfs>>

\* cpu_list = pinning_generator.ping_pong_pinning(clusters, x)
MainPingPong ==
    /\ pc = "main_clusters"
    /\ \E r \in {PingPongPinning(clusters, nodes_per_round)} :
           /\ cpu_list' = r.cpu_list
           /\ visited' = r.visited
           /\ IF r.raised = NoExc
              THEN /\ pc' = "main_pinned"
                   /\ UNCHANGED <<exit_code, warnings>>
              ELSE MainExit(1, {ErrorValue})
    /\ UNCHANGED <<fileVars, monitorVars, locals>>
    /\ UNCHANGED <<cachefs, nodes_in, nodes, cache_level, clusters, raised,
                   nodes_per_round, io_log, sysfs>>

\* save_pinning_to_file(filepath, cpu_list), then return 0
MainSave ==
    /\ pc = "main_pinned"
    /\ io_log' = Append(io_log, "write_file")
    /\ MainExit(0, {})
    /\ UNCHANGED <<fileVars, monitorVars, locals>>
    /\ UNCHANGED <<cachefs, nodes_in, nodes, cache_level, clusters, raised,
                   nodes_per_round, cpu_list, visited, sysfs>>

\* save_pinning_to_file raises IOError, which the outer handler catches
MainSaveFails ==
    /\ pc = "main_pinned"
    /\ io_log' = Append(io_log, "open_file")
    /\ MainExit(1, {ErrorUnexpected})
    /\ UNCHANGED <<fileVars, monitorVars, locals>>
    /\ UNCHANGED <<cachefs, nodes_in, nodes, cache_level, clusters, raised,
                   nodes_per_round, cpu_list, visited, sysfs>>

NextPin ==
    \/ ClusterFirstCall
    \/ PingPongCall
    \/ MainParseX
    \/ MainParseFails
    \/ MainGetClusters
    \/ MainGetClustersRaises
    \/ MainPingPong
    \/ MainSave
    \/ MainSaveFails

SpecPin == InitPin /\ [][NextPin]_vars

-----------------------------------------------------------------------------
(* C4 .. C7, C9: the pinning sequences *)

\* the core tuples of the input, cluster by cluster, node by node
CoreTuples ==
    {clusters[c][n].cores_list[k] :
        <<c, n, k>> \in {x \in (1..Len(clusters)) \X (1..MaxPinNodes + 1) \X (1..2) :
                            /\ x[2] <= Len(clusters[x[1]])
                            /\ x[3] <= Len(clusters[x[1]][x[2]].cores_list)}}

\* S: the widest core tuple anywhere, 0 without any tuple
WidestTuple ==
    IF CoreTuples = {} THEN 0
    ELSE CHOOSE w \in {Len(t) : t \in CoreTuples} : \A t \in CoreTuples : Len(t) <= w

\* the smt_pos-th ids of the tuples wide enough, in nesting order
SlotIds(smt_pos) ==
    LET wide == SelectSeq(AllCores(clusters), LAMBDA t : Len(t) > smt_pos)
    IN  [k \in 1..Len(wide) |-> wide[k][smt_pos + 1]]

\* the concatenation of the slots 0 .. S-1
SlotMajor ==
    LET Body(acc, smt_pos) == acc \o SlotIds(smt_pos)
    IN  ForEach(Body, <<>>, [k \in 1..WidestTuple |-> k - 1])

\* C4: cluster_first_pinning returns, for any clusters, the concatenation
\* over smt_pos = 0..S-1 of the smt_pos-th id of every core tuple with more
\* than smt_pos members, in cluster, node and core order.
C4_ClusterFirstSlotMajor ==
    pc = "cf_returned" => cpu_list = SlotMajor

\* the same for the inputs that pass the early return of the function
ClusterFirstSlotMajorPastGuard ==
    (pc = "cf_returned" /\ ~ClusterFirstGuard(clusters)) => cpu_list = SlotMajor

\* the nodes of the input as <<cluster, node>>, 0-based
NodePlaces ==
    {<<c - 1, n - 1>> : <<c, n>> \in {x \in (1..Len(clusters)) \X (1..MaxPinNodes + 1) :
                                         x[2] <= Len(clusters[x[1]])}}

\* the round a node is taken in, and the order of the visits of one slot:
\* by round, then by cluster, then by node
RoundOf(place) == place[2] \div nodes_per_round

VisitedBefore(a, b) ==
    \/ RoundOf(a) < RoundOf(b)
    \/ RoundOf(a) = RoundOf(b) /\ a[1] < b[1]
    \/ RoundOf(a) = RoundOf(b) /\ a[1] = b[1] /\ a[2] < b[2]

RankInSlot(place) == 1 + Cardinality({q \in NodePlaces : VisitedBefore(q, place)})

\* C5: within each SMT slot ping_pong_pinning visits every node once, round
\* by round, each round taking the next nodes_per_round (or the remaining)
\* nodes of cluster 0, then of cluster 1, ..., the cursors starting again at
\* 0 for every slot.
C5_PingPongNodeOrder ==
    (pc = "pp_returned" /\ nodes_per_round >= 1) =>
        /\ Len(visited) = WidestTuple * Cardinality(NodePlaces)
        /\ \A k \in 1..Len(visited) :
               /\ visited[k][1] = (k - 1) \div Cardinality(NodePlaces)
               /\ <<visited[k][2], visited[k][3]>> \in NodePlaces
               /\ RankInSlot(<<visited[k][2], visited[k][3]>>)
                      = ((k - 1) % Cardinality(NodePlaces)) + 1

\* nodes_per_round = 1 on two clusters of two nodes each, one core per node
C5_Witness ==
    /\ pc = "pp_returned"
    /\ nodes_per_round = 1
    /\ Len(clusters) = 2
    /\ Len(clusters[1]) = 2
    /\ Len(clusters[2]) = 2
    /\ \A c \in 1..2 : \A n \in 1..2 : clusters[c][n].cores_list = <<<<2 * (c - 1) + n - 1>>>>
    /\ visited = <<<<0, 0, 0>>, <<0, 1, 0>>, <<0, 0, 1>>, <<0, 1, 1>>>>
    /\ cpu_list = <<0, 2, 1, 3>>

\* core tuples free of duplicates and pairwise disjoint
WellFormed ==
    /\ \A t \in CoreTuples : \A i, j \in 1..Len(t) : t[i] = t[j] => i = j
    /\ \A t, u \in CoreTuples : t # u => Range(t) \cap Range(u) = {}
    /\ Cardinality(CoreTuples) = Len(AllCores(clusters))

AllIds == UNION {Range(t) : t \in CoreTuples}

ExactlyOnce(list) ==
    /\ Range(list) = AllIds
    /\ \A i, j \in 1..Len(list) : list[i] = list[j] => i = j

\* C6: on well-formed clusters the sequence cluster_first_pinning returns,
\* and the one ping_pong_pinning returns for a positive nodes_per_round,
\* holds every logical id of every core tuple exactly once.
C6_EveryIdExactlyOnce ==
    /\ (pc = "cf_returned" /\ WellFormed) => ExactlyOnce(cpu_list)
    /\ (pc = "pp_returned" /\ nodes_per_round >= 1 /\ WellFormed) => ExactlyOnce(cpu_list)

\* the part of C6 ping_pong_pinning keeps
PingPongEveryIdExactlyOnce ==
    (pc = "pp_returned" /\ nodes_per_round >= 1 /\ WellFormed) => ExactlyOnce(cpu_list)

\* the generator that was called has ended, by a return or an exception
Ended(returned, raisedAt) == pc \in {returned, raisedAt}

\* C7: on non-empty clusters without any core tuple both generators return
\* the empty sequence and neither raises.
C7_EmptyCoreSetReturnsEmpty ==
    (clusters # <<>> /\ NodePlaces # {} /\ CoreTuples = {}) =>
        /\ Ended("cf_returned", "cf_raised") => (pc = "cf_returned" /\ cpu_list = <<>>)
        /\ (Ended("pp_returned", "pp_raised") /\ nodes_per_round >= 1)
               => (pc = "pp_returned" /\ cpu_list = <<>>)

\* the part of C7 cluster_first_pinning keeps
ClusterFirstEmptyCoreSet ==
    (clusters # <<>> /\ CoreTuples = {} /\ Ended("cf_returned", "cf_raised"))
        => (pc = "cf_returned" /\ cpu_list = <<>>)

\* the states of the --pin_ping_pong command
InMain == pc \in {"main_parsed", "main_clusters", "main_pinned", "main_exit"}

\* C9: ping_pong_pinning yields no pinning for nodes_per_round <= 0, and the
\* command reports an error and exits non-zero without having read the
\* topology or written the output file.
C9_NonPositiveRejected ==
    nodes_per_round <= 0 =>
        /\ Ended("pp_returned", "pp_raised")
               => (pc = "pp_returned" /\ cpu_list = <<>> /\ visited = <<>>)
        /\ InMain => /\ pc = "main_exit"
                     /\ exit_code = 1
                     /\ warnings \cap {ErrorPositive, ErrorNotInt} # {}
                     /\ io_log = <<>>

\* the command given X = 0 on a machine that has clusters with cores
C9_Witness ==
    /\ pc = "main_exit"
    /\ nodes_per_round = 0
    /\ ErrorPositive \in warnings
    /\ exit_code = 1
    /\ io_log = <<>>
    /\ CoreTuples # {}

-----------------------------------------------------------------------------
(* Runs of get_nodes_info on a node tree *)

\* cpus 0 and 1 are the two threads of one core when smt is on, cpu 2 is a
\* core of its own; every sibling file that can be read holds the core
SiblingsOf(cpu, smt) == IF smt /\ cpu \in {0, 1} THEN <<0, 1>> ELSE <<cpu>>

FileStates == {"ok", "ioerr", "bad", "empty"}

FileIn(state, val) ==
    IF state = "ok" THEN OkFile(val)
    ELSE IF state = "ioerr" THEN MissingFile
    ELSE IF state = "bad" THEN MalformedFile ELSE EmptyFile

\* cpulist of a node: "0-1", "0,1,2", "", unreadable, or "0-1,2"
CpuListFiles ==
    {RangeFile(0, 1), OkFile(<<0, 1, 2>>), EmptyFile, MissingFile, MalformedFile}

NodeDirFiles ==
    {[cpulist |-> c, distance |-> FileIn(d, <<10, 20>>)] :
        c \in CpuListFiles, d \in FileStates}

\* the node directories in the order iterdir yields them
NodeDirOrders == {<<>>, <<0>>, <<1>>, <<1, 0>>}

InitNodes ==
    /\ pc = "nodes_call"
    /\ cachefs = <<>>
    /\ nodes_in = <<>>
    /\ nodes = <<>>
    /\ cache_level = -1
    /\ clusters = <<>>
    /\ warnings = {}
    /\ raised = NoExc
    /\ nodes_per_round = 0
    /\ cpu_list = <<>>
    /\ visited = <<>>
    /\ exit_code = NotExited
    /\ io_log = <<>>
    /\ FilesIdle
    /\ MonitorIdle
    /\ locals = NoLocals
    /\ \E mem \in FileStates, root_ok \in BOOLEAN, smt \in BOOLEAN,
          sib \in [0..2 -> FileStates], dirs \in NodeDirOrders :
          \E files \in [Range(dirs) -> NodeDirFiles] :
              /\ root_ok \/ dirs = <<>>
              /\ sysfs = [has_memory |-> FileIn(mem, <<0>>),
                          node_root_ok |-> root_ok,
                          node_dirs |-> dirs,
                          node |-> files,
                          siblings |-> [c \in 0..2 |-> FileIn(sib[c], SiblingsOf(c, smt))]]

\* nodes = get_nodes_info()
GetNodesInfoCall ==
    /\ pc = "nodes_call"
    /\ \E r \in {GetNodesInfo(sysfs)} :
           /\ nodes' = r.nodes
           /\ warnings' = warnings \cup r.warnings
           /\ raised' = r.raised
           /\ pc' = IF r.raised = NoExc THEN "nodes_returned" ELSE "nodes_raised"
    /\ UNCHANGED <<fileVars, monitorVars, locals>>
    /\ UNCHANGED <<cachefs, nodes_in, cache_level, clusters, nodes_per_round,
                   cpu_list, visited, exit_code, io_log, sysfs>>

NextNodes == GetNodesInfoCall

SpecNodes == InitNodes /\ [][NextNodes]_vars

-----------------------------------------------------------------------------
(* C10: the core tuples of the nodes get_nodes_info returns *)

\* the raw cpu membership list of a node, as its cpulist file gives it
Membership(node_id) == Range(ReadFile(sysfs.node[node_id].cpulist).val)

IdsInTuples(n) == UNION {Range(t) : t \in Range(n.cores_list)}

\* the place in the cpulist of the first member cpu that yields tuple a of n
FirstSeen(n, a) ==
    LET cpus == ReadFile(sysfs.node[n.id].cpulist).val
        from == {k \in 1..Len(cpus) :
                    /\ sysfs.siblings[cpus[k]].k = "ok"
                    /\ sysfs.siblings[cpus[k]].val = n.cores_list[a]}
    IN  IF from = {} THEN 0 ELSE CHOOSE k \in from : \A j \in from : k <= j

SiblingsUnreadable(cpu) == sysfs.siblings[cpu].k # "ok"

\* a warning that names the cpu whose sibling list could not be read
WarnedAboutCpu(cpu) ==
    \E w \in warnings : w \notin {NoMemoryInfoWarning, NodeAccessError}
                        /\ w \notin {NodeWarning(i) : i \in 0..1}

\* the tuples of a returned node hold only member cpus, each in one tuple,
\* in first-seen order, and a member cpu is missing only when its sibling
\* list cannot be read
TuplesCoverReadableMembers ==
    pc = "nodes_returned" =>
        \A i \in 1..Len(nodes) :
            /\ IdsInTuples(nodes[i]) \subseteq Membership(nodes[i].id)
            /\ \A a, b \in 1..Len(nodes[i].cores_list) :
                   a # b => Range(nodes[i].cores_list[a]) \cap Range(nodes[i].cores_list[b]) = {}
            /\ \A a, b \in 1..Len(nodes[i].cores_list) :
                   a < b => FirstSeen(nodes[i], a) < FirstSeen(nodes[i], b)
            /\ \A cpu \in Membership(nodes[i].id) \ IdsInTuples(nodes[i]) :
                   SiblingsUnreadable(cpu)

\* C10: for every node get_nodes_info returns, the ids in its core tuples are
\* its cpu membership list, every id is in exactly one tuple, and a member
\* cpu is missing only if its sibling list could not be read, the omission
\* being reported in a warning.
C10_TuplesEqualMembership ==
    /\ TuplesCoverReadableMembers
    /\ pc = "nodes_returned" =>
           \A i \in 1..Len(nodes) :
               \A cpu \in Membership(nodes[i].id) \ IdsInTuples(nodes[i]) :
                   WarnedAboutCpu(cpu)

-----------------------------------------------------------------------------
(* get_cpu_info and _get_node_of_cpu *)

CPUInfo(logical_id, core_id, siblings, numa_node, cache_ids, package_id) ==
    [logical_id |-> logical_id, core_id |-> core_id, siblings |-> siblings,
     numa_node |-> numa_node, cache_ids |-> cache_ids, package_id |-> package_id]

CpuAccessError == "Error: Unable to access /sys/devices/system/cpu"
CpuWarning(cpu_nbr) ==
    "Warning: Could not read complete information for cpu" \o ToString(cpu_nbr)

\* int(f.read().strip()) of a single-value file: int('') raises ValueError
ReadInt(file) ==
    IF file.k = "ioerr" THEN [raised |-> IOError, val |-> 0]
    ELSE IF file.k \in {"bad", "empty"} THEN [raised |-> ValueError, val |-> 0]
    ELSE [raised |-> NoExc, val |-> file.val]

\* the first node<M> entry of the cpu directory, None when there is none or
\* when the directory cannot be listed
GetNodeOfCpu(fs, logical_id) ==
    LET listing == ReadFile(fs.cpu[logical_id].node_entries)
    IN  IF listing.raised # NoExc \/ listing.val = <<>> THEN None
        ELSE Head(listing.val)

\* the try block of one cpu entry: the CPUInfo, or the exception that makes
\* the loop print a warning and continue
ReadCpu(fs, cfs, cpu_nbr) ==
    LET Built(siblings, core_id, package_id, cache) ==
            IF cache.raised # NoExc THEN [raised |-> cache.raised, cpu_info |-> <<>>]
            ELSE [raised |-> NoExc,
                  cpu_info |-> CPUInfo(cpu_nbr, core_id, siblings,
                                       GetNodeOfCpu(fs, cpu_nbr), cache.val, package_id)]
        WithPackage(siblings, core_id, p) ==
            IF p.raised # NoExc THEN [raised |-> p.raised, cpu_info |-> <<>>]
            ELSE Built(siblings, core_id, p.val, GetCacheInfo(cfs, cpu_nbr))
        WithCore(siblings, c) ==
            IF c.raised # NoExc THEN [raised |-> c.raised, cpu_info |-> <<>>]
            ELSE WithPackage(siblings, c.val, ReadInt(fs.cpu[cpu_nbr].physical_package_id))
        WithSiblings(sib) ==
            IF sib.raised # NoExc THEN [raised |-> sib.raised, cpu_info |-> <<>>]
            ELSE WithCore(sib.val, ReadInt(fs.cpu[cpu_nbr].core_id))
    IN  WithSiblings(ReadFile(fs.cpu[cpu_nbr].thread_siblings_list))

\* the loop over cpu_entries
ReadCpus(fs, cfs) ==
    LET Body(acc, cpu_nbr) ==
            LET Got(r) ==
                    IF r.raised # NoExc
                    THEN [acc EXCEPT !.warnings = @ \cup {CpuWarning(cpu_nbr)}]
                    ELSE [acc EXCEPT !.cpu_list = Append(@, r.cpu_info)]
            IN  Got(ReadCpu(fs, cfs, cpu_nbr))
    IN  ForEach(Body, [cpu_list |-> <<>>, warnings |-> {}], fs.cpu_entries)

\* cpu_list.sort(key=lambda x: x.logical_id)
SortByLogicalId(cs) ==
    LET Le(a, b) == a.logical_id <= b.logical_id IN StableSort(cs, Le)

\* get_cpu_info(): the list it returns and what it prints; every exception
\* of the loop body is caught
GetCpuInfo(fs, cfs) ==
    IF ~fs.cpu_root_ok THEN [cpu_list |-> <<>>, warnings |-> {CpuAccessError}]
    ELSE LET Done(r) == [cpu_list |-> SortByLogicalId(r.cpu_list), warnings |-> r.warnings]
         IN  Done(ReadCpus(fs, cfs))

-----------------------------------------------------------------------------
(* Runs of get_cpu_info on a cpu tree *)

\* the cpu<N> entries in the order iterdir yields them
CpuEntryOrders == {<<>>, <<0>>, <<1>>, <<0, 1>>, <<1, 0>>}

\* the files of one cpu directory
CpuDirFiles ==
    {[thread_siblings_list |-> FileIn(s, <<0, 1>>),
      core_id |-> IF c = "ok" THEN OkFile(0) ELSE FileIn(c, <<>>),
      physical_package_id |-> IF p = "ok" THEN OkFile(0) ELSE FileIn(p, <<>>),
      node_entries |-> n] :
        s \in FileStates, c \in {"ok", "ioerr", "empty"}, p \in {"ok", "bad"},
        n \in {OkFile(<<>>), OkFile(<<0>>), MissingFile}}

\* the cache id files of one cpu directory
CpuCacheFiles == {<<>>, <<IdFile(0)>>, <<IdFile(0), IdFile(1)>>, <<IoErrFile>>, <<IdFile(0), BadFile>>}

InitCpus ==
    /\ pc = "cpus_call"
    /\ nodes_in = <<>>
    /\ nodes = <<>>
    /\ cache_level = -1
    /\ clusters = <<>>
    /\ warnings = {}
    /\ raised = NoExc
    /\ nodes_per_round = 0
    /\ cpu_list = <<>>
    /\ visited = <<>>
    /\ exit_code = NotExited
    /\ io_log = <<>>
    /\ FilesIdle
    /\ MonitorIdle
    /\ locals = NoLocals
    /\ \E root_ok \in BOOLEAN, entries \in CpuEntryOrders :
          \E files \in [Range(entries) -> CpuDirFiles],
             cache \in [Range(entries) -> CpuCacheFiles] :
              /\ root_ok \/ entries = <<>>
              /\ cachefs = cache
              /\ sysfs = [cpu_root_ok |-> root_ok, cpu_entries |-> entries, cpu |-> files]

\* cpu_list = get_cpu_info()
GetCpuInfoCall ==
    /\ pc = "cpus_call"
    /\ \E r \in {GetCpuInfo(sysfs, cachefs)} :
           /\ cpu_list' = r.cpu_list
           /\ warnings' = warnings \cup r.warnings
    /\ pc' = "cpus_returned"
    /\ UNCHANGED <<fileVars, monitorVars, locals>>
    /\ UNCHANGED <<cachefs, nodes_in, nodes, cache_level, clusters, raised,
                   nodes_per_round, visited, exit_code, io_log, sysfs>>

NextCpus == GetCpuInfoCall

SpecCpus == InitCpus /\ [][NextCpus]_vars

-----------------------------------------------------------------------------
(* Runs of either topology builder *)

InitTopology == InitCpus \/ InitNodes

NextTopology == GetCpuInfoCall \/ GetNodesInfoCall

SpecTopology == InitTopology /\ [][NextTopology]_vars

-----------------------------------------------------------------------------
(* C11: per-entity failures are drop-and-continue *)

\* how many records of the returned list carry the id
CpuCount(n) == Cardinality({i \in 1..Len(cpu_list) : cpu_list[i].logical_id = n})
NodeCount(n) == Cardinality({i \in 1..Len(nodes) : nodes[i].id = n})

\* a file whose read or parse fails at the place that reads it
Unreadable(file) == file.k \in {"ioerr", "bad"}
UnreadableInt(file) == file.k \in {"ioerr", "bad", "empty"}

\* a mandatory field of the cpu leaf cannot be read
CpuFieldUnreadable(n) ==
    \/ Unreadable(sysfs.cpu[n].thread_siblings_list)
    \/ UnreadableInt(sysfs.cpu[n].core_id)
    \/ UnreadableInt(sysfs.cpu[n].physical_package_id)

\* siblings, core id and package id of the cpu leaf all hold values
CpuFieldsReadable(n) ==
    /\ sysfs.cpu[n].thread_siblings_list.k = "ok"
    /\ sysfs.cpu[n].core_id.k = "ok"
    /\ sysfs.cpu[n].physical_package_id.k = "ok"

\* no cache id file of the cpu holds content int() rejects
CacheIdsWellFormed(n) == \A k \in DOMAIN cachefs[n] : cachefs[n][k].k # "bad"

\* cpulist or distance of the node leaf cannot be read
NodeFieldUnreadable(n) ==
    Unreadable(sysfs.node[n].cpulist) \/ Unreadable(sysfs.node[n].distance)

NodeFieldsReadable(n) == ~NodeFieldUnreadable(n)

\* no sibling list of a member cpu holds content int() rejects
SiblingListsWellFormed(n) ==
    \A cpu \in Membership(n) : sysfs.siblings[cpu].k \notin {"bad", "empty"}

CpusSortedUnique ==
    \A i, j \in 1..Len(cpu_list) : i < j => cpu_list[i].logical_id < cpu_list[j].logical_id

NodesSortedUnique ==
    \A i, j \in 1..Len(nodes) : i < j => nodes[i].id < nodes[j].id

\* the part of C11 the code keeps: a leaf with an unreadable field is absent,
\* a leaf is present once when every read of its try block succeeds, and the
\* result is sorted by unique id
DropAndContinueWhenLookupsParse ==
    /\ pc = "cpus_returned" =>
           /\ \A n \in Range(sysfs.cpu_entries) :
                  /\ CpuFieldUnreadable(n) => CpuCount(n) = 0
                  /\ CpuFieldsReadable(n) /\ CacheIdsWellFormed(n) => CpuCount(n) = 1
           /\ CpusSortedUnique
    /\ pc = "nodes_returned" =>
           /\ \A n \in Range(sysfs.node_dirs) :
                  /\ NodeFieldUnreadable(n) => NodeCount(n) = 0
                  /\ NodeFieldsReadable(n) /\ SiblingListsWellFormed(n) => NodeCount(n) = 1
           /\ NodesSortedUnique

\* C11: in the list get_cpu_info returns a cpu leaf whose siblings, core id or
\* package id cannot be read is absent, in the list get_nodes_info returns a
\* node leaf whose cpulist or distance cannot be read is absent, every other
\* leaf whose attributes are readable is present exactly once, and both
\* results are sorted ascending by unique id.
C11_DropAndContinue ==
    /\ pc = "cpus_returned" =>
           /\ \A n \in Range(sysfs.cpu_entries) :
                  /\ CpuFieldUnreadable(n) => CpuCount(n) = 0
                  /\ CpuFieldsReadable(n) => CpuCount(n) = 1
           /\ CpusSortedUnique
    /\ pc = "nodes_returned" =>
           /\ \A n \in Range(sysfs.node_dirs) :
                  /\ NodeFieldUnreadable(n) => NodeCount(n) = 0
                  /\ NodeFieldsReadable(n) => NodeCount(n) = 1
           /\ NodesSortedUnique

-----------------------------------------------------------------------------
(* C12: a has_memory file that cannot be read or parsed *)

NodesCallEnded == pc \in {"nodes_returned", "nodes_raised"}

\* every node leaf the loop can build is in the returned list, as a node
\* without memory
ReadableNodesReturnedWithoutMemory ==
    /\ \A i \in 1..Len(nodes) : ~nodes[i].memory
    /\ sysfs.node_root_ok =>
           \A n \in Range(sysfs.node_dirs) :
               NodeFieldsReadable(n) /\ SiblingListsWellFormed(n) => NodeCount(n) = 1

\* the part of C12 the code keeps: a has_memory file that is missing or
\* cannot be opened gives the warning and the empty set
MissingMemoryFileNonFatal ==
    NodesCallEnded /\ sysfs.has_memory.k = "ioerr" =>
        /\ pc = "nodes_returned"
        /\ raised = NoExc
        /\ NoMemoryInfoWarning \in warnings
        /\ ReadableNodesReturnedWithoutMemory

\* C12: whether has_memory is missing, unreadable, empty or holds a
\* non-numeric token, get_nodes_info does not raise, treats the set of memory
\* nodes as empty and returns every readable node with memory = false.
C12_MemoryReadFailureNonFatal ==
    NodesCallEnded /\ sysfs.has_memory.k # "ok" =>
        /\ pc = "nodes_returned"
        /\ raised = NoExc
        /\ ReadableNodesReturnedWithoutMemory

-----------------------------------------------------------------------------
(* Runs of the two attribute lookups, and of the operations that use them *)

\* one sibling file and one list of cache id files for each of cpu 0 and 1;
\* cpu 2 has no directory
InitLookups ==
    /\ pc = "lookup_call"
    /\ nodes_in = <<>>
    /\ nodes = <<>>
    /\ cache_level = -1
    /\ clusters = <<>>
    /\ warnings = {}
    /\ raised = NoExc
    /\ nodes_per_round = 0
    /\ cpu_list = <<>>
    /\ visited = <<>>
    /\ exit_code = NotExited
    /\ io_log = <<>>
    /\ MonitorIdle
    /\ locals = NoLocals
    /\ logical_ids = <<>>
    /\ cache_info = <<>>
    /\ cluster_file = <<>>
    /\ saved = FALSE
    /\ lookup_id \in 0..2
    /\ cachefs \in [0..1 -> CacheFileLists]
    /\ \E sib \in [0..1 -> FileStates] :
          sysfs = [siblings |-> [c \in 0..1 |-> FileIn(sib[c], <<0, 1>>)]]

\* logical_ids = self._get_cpus_logical_ids(lookup_id)
GetCpusLogicalIdsCall ==
    /\ pc = "lookup_call"
    /\ \E r \in {GetCpusLogicalIds(sysfs, lookup_id)} :
           /\ logical_ids' = r.val
           /\ raised' = r.raised
           /\ pc' = IF r.raised = NoExc THEN "siblings_returned" ELSE "siblings_raised"
    /\ UNCHANGED <<lookup_id, cache_info, cluster_file, saved, monitorVars, locals>>
    /\ UNCHANGED <<cachefs, nodes_in, nodes, cache_level, clusters, warnings,
                   nodes_per_round, cpu_list, visited, exit_code, io_log, sysfs>>

\* cache_info = self._get_cache_info(lookup_id)
GetCacheInfoCall ==
    /\ pc = "lookup_call"
    /\ \E r \in {GetCacheInfo(cachefs, lookup_id)} :
           /\ cache_info' = r.val
           /\ raised' = r.raised
           /\ pc' = IF r.raised = NoExc THEN "cache_returned" ELSE "cache_raised"
    /\ UNCHANGED <<lookup_id, logical_ids, cluster_file, saved, monitorVars, locals>>
    /\ UNCHANGED <<cachefs, nodes_in, nodes, cache_level, clusters, warnings,
                   nodes_per_round, cpu_list, visited, exit_code, io_log, sysfs>>

InitLookupUsers == InitLookups \/ InitCpus \/ InitNodes \/ InitOpt

NextLookupUsers ==
    \/ GetCpusLogicalIdsCall
    \/ GetCacheInfoCall
    \/ GetCpuInfoCall
    \/ GetNodesInfoCall
    \/ OptimizeCall

SpecLookupUsers == InitLookupUsers /\ [][NextLookupUsers]_vars

-----------------------------------------------------------------------------
(* C13: the attribute lookups on a bad entry *)

\* the sibling file the lookup was asked for
SiblingFileAsked ==
    IF lookup_id \in DOMAIN sysfs.siblings THEN sysfs.siblings[lookup_id] ELSE MissingFile

\* the cache id files the lookup was asked for
CacheFilesAsked == IF lookup_id \in DOMAIN cachefs THEN cachefs[lookup_id] ELSE <<>>

\* the ids of the cache id files before the first one that cannot be opened
RECURSIVE IdsBeforeIoError(_)
IdsBeforeIoError(files) ==
    IF files = <<>> \/ Head(files).k # "id" THEN <<>>
    ELSE <<Head(files).v>> \o IdsBeforeIoError(Tail(files))

\* the part of C13 the code keeps: a file that is missing or cannot be opened
\* never makes a lookup raise; the sibling lookup then returns the empty
\* list and the cache lookup the ids it read before
LookupsCatchIOError ==
    /\ pc \in {"siblings_returned", "siblings_raised"} /\ SiblingFileAsked.k = "ioerr" =>
           pc = "siblings_returned" /\ logical_ids = <<>>
    /\ pc \in {"cache_returned", "cache_raised"}
           /\ (\A k \in DOMAIN CacheFilesAsked : CacheFilesAsked[k].k # "bad") =>
           pc = "cache_returned" /\ cache_info = IdsBeforeIoError(CacheFilesAsked)

\* C13: the sibling lookup and the cache-id lookup never raise, and return the
\* empty list for a sibling file that is missing, empty or not numeric; so a
\* malformed cache id does not remove a cpu whose mandatory fields are
\* readable, a malformed sibling list does not remove a node, and
\* optimize_cache_nodes does not raise.
C13_LookupsNeverRaise ==
    /\ pc \notin {"siblings_raised", "cache_raised", "opt_raised"}
    /\ pc = "siblings_returned" /\ SiblingFileAsked.k # "ok" => logical_ids = <<>>
    /\ pc = "cpus_returned" =>
           \A n \in Range(sysfs.cpu_entries) : CpuFieldsReadable(n) => CpuCount(n) = 1
    /\ pc = "nodes_returned" =>
           \A n \in Range(sysfs.node_dirs) : NodeFieldsReadable(n) => NodeCount(n) = 1

-----------------------------------------------------------------------------
(* C14: get_clusters on a list without memory-capable nodes *)

\* some returned cluster has no memory-capable node at index 0
SomeClusterWithoutAnchor ==
    \E c \in 1..Len(clusters) : clusters[c] = <<>> \/ ~clusters[c][1].memory

\* a returned cluster lacks its anchor only when the input has no memory node
AnchorMissingOnlyWithoutMemory ==
    pc = "clusters_returned" /\ SomeClusterWithoutAnchor => Anchors = {}

\* C14 as amended: a non-empty input without memory-capable nodes gives, with
\* a warning and at every cache level, one cluster holding the input nodes in
\* input order with their core lists as they were; an empty input gives no
\* cluster at all; and no other input gives a cluster without a
\* memory-capable node at index 0.
C14_NoMemoryOneClusterUnlessEmpty ==
    /\ pc = "clusters_returned" /\ Anchors = {} /\ nodes_in # <<>> =>
           /\ clusters = <<nodes_in>>
           /\ nodes = nodes_in
           /\ NoMemoryWarning \in warnings
    /\ pc = "clusters_returned" /\ nodes_in = <<>> => clusters = <<>>
    /\ AnchorMissingOnlyWithoutMemory

\* a run at cache level 0 on two nodes without memory
C14_Witness ==
    /\ pc = "clusters_returned"
    /\ cache_level = 0
    /\ Len(nodes_in) = 2
    /\ Anchors = {}
    /\ clusters = <<nodes_in>>

\* C14 as stated: an input without memory-capable nodes, the empty list
\* included, gives exactly one cluster holding all input nodes in input order
\* with their core lists unmodified, and this is the only case in which a
\* returned cluster has no memory-capable node at index 0.
C14_NoMemoryOneClusterAlways ==
    /\ pc = "clusters_returned" /\ Anchors = {} =>
           /\ clusters = <<nodes_in>>
           /\ nodes = nodes_in
    /\ AnchorMissingOnlyWithoutMemory

-----------------------------------------------------------------------------
(* Runs of optimize_cache_nodes on one node or of get_clusters on a list *)

InitOptOrClusters == InitOpt \/ InitClusters

NextOptOrClusters == OptimizeCall \/ GetClustersCall

SpecOptOrClusters == InitOptOrClusters /\ [][NextOptOrClusters]_vars

-----------------------------------------------------------------------------
(* C15: what optimize_cache_nodes and get_clusters leave alone *)

SameButCores(a, b) == a.id = b.id /\ a.memory = b.memory /\ a.distance = b.distance

\* the input node with the id of a cluster member
InputNode(id) == nodes_in[InputIndex(id)]

\* C15: optimize_cache_nodes with cache_level < 0 leaves every field of the
\* node, the core list included, as it was; with cache_level >= 0 it leaves
\* id, memory flag and distance vector as they were and replaces only
\* cores_list; and get_clusters with optimize_cache_level < 0 leaves the core
\* list of every input node as it was.
C15_OnlyCoreOrderChanges ==
    /\ pc = "opt_returned" =>
           /\ Len(nodes) = Len(nodes_in)
           /\ \A i \in 1..Len(nodes) :
                  /\ SameButCores(nodes[i], nodes_in[i])
                  /\ cache_level < 0 => nodes[i] = nodes_in[i]
    /\ pc = "clusters_returned" /\ cache_level < 0 =>
           /\ nodes = nodes_in
           /\ \A c \in 1..Len(clusters) : \A k \in 1..Len(clusters[c]) :
                  clusters[c][k] = InputNode(clusters[c][k].id)

\* an optimizer run that reordered the cores of its node
C15_Witness ==
    /\ pc = "opt_returned"
    /\ cache_level >= 0
    /\ Len(nodes[1].cores_list) = 2
    /\ nodes[1].cores_list # nodes_in[1].cores_list
    /\ SameButCores(nodes[1], nodes_in[1])

-----------------------------------------------------------------------------
(* save_cluster_info *)

ErrorSaving == "Error saving pinning file"
SavedMessage == "CPU pinning configuration saved"

\* a line of the file is the sequence of the pieces of text written for it;
\* numbers are written with str()
CommentLine(text) == <<"#", text>>
BlankLine == <<>>

\* ",".join(map(str, cpus))
JoinIds(cpus) ==
    LET Body(acc, id) == IF acc = <<>> THEN <<ToString(id)>> ELSE acc \o <<",", ToString(id)>>
    IN  ForEach(Body, <<>>, cpus)

\* f"core[{cluster_idx}][{node_idx}][{core_idx}]={cpu_list}"
CoreLine(cluster_idx, node_idx, core_idx, cpus) ==
    <<"core", "[", ToString(cluster_idx), "]", "[", ToString(node_idx), "]",
      "[", ToString(core_idx), "]", "=">> \o JoinIds(cpus)

\* the four header lines and the blank line after them
HeaderLines(level) ==
    <<CommentLine(" CPU Pinning Configuration"),
      CommentLine(" Generated on host"),
      CommentLine(" Format: core[cluster_id][node_id][core_id]=smt_list"),
      CommentLine(" Cache optimization level: " \o ToString(level)),
      BlankLine>>

\* for core_idx, cpus in enumerate(node.cores_list): if cpus: f.write(...)
CoreLinesOfNode(cluster_idx, node_idx, node) ==
    LET Body(acc, core_idx) ==
            IF node.cores_list[core_idx] # <<>>
            THEN Append(acc, CoreLine(cluster_idx, node_idx, core_idx - 1,
                                      node.cores_list[core_idx]))
            ELSE acc
    IN  ForEach(Body, <<>>, [i \in 1..Len(node.cores_list) |-> i])

\* for node_idx, node in enumerate(cluster): the node comment and its cores
LinesOfCluster(cluster_idx, cluster) ==
    LET Body(acc, node_idx) ==
            Append(acc, CommentLine(" Node " \o ToString(cluster[node_idx].id)
                            \o (IF cluster[node_idx].memory THEN " (Memory)" ELSE " (Compute)")))
                \o CoreLinesOfNode(cluster_idx, node_idx - 1, cluster[node_idx])
    IN  ForEach(Body,
                <<CommentLine(" Cluster " \o ToString(cluster_idx) \o " (Memory Node: "
                                  \o ToString(cluster[1].id) \o ")")>>,
                [i \in 1..Len(cluster) |-> i])

\* the body of the with block: every line written to the file
ClusterFileLines(cs, level) ==
    LET Body(acc, cluster_idx) == acc \o LinesOfCluster(cluster_idx - 1, cs[cluster_idx])
    IN  ForEach(Body, HeaderLines(level), [i \in 1..Len(cs) |-> i])

\* save_cluster_info(filename, cache_level): the clusters it built, the lines
\* it left in the file, what it printed and what it returned; every
\* exception is caught and gives False
SaveClusterInfo(fs, cfs, level) ==
    LET Failed(cs, said) ==
            [clusters |-> cs, cluster_file |-> <<>>, warnings |-> said, saved |-> FALSE]
        WithClusters(c, said) ==
            IF c.raised # NoExc THEN Failed(<<>>, said \cup {ErrorSaving})
            ELSE IF c.clusters = <<>> THEN Failed(<<>>, said \cup c.warnings \cup {ErrorNoClusters})
            ELSE IF ~fs.outfile_ok THEN Failed(c.clusters, said \cup c.warnings \cup {ErrorSaving})
            ELSE [clusters |-> c.clusters,
                  cluster_file |-> ClusterFileLines(c.clusters, level),
                  warnings |-> said \cup c.warnings \cup {SavedMessage},
                  saved |-> TRUE]
        WithNodes(n) ==
            IF n.raised # NoExc THEN Failed(<<>>, n.warnings \cup {ErrorSaving})
            ELSE WithClusters(GetClusters(cfs, n.nodes, level), n.warnings)
    IN  WithNodes(GetNodesInfo(fs))

-----------------------------------------------------------------------------
(* Runs of save_cluster_info on a node tree *)

\* node 0 holds cpus 0 and 1, node 1 holds cpu 2; either may have no cpu
SaveNodeFiles(n) ==
    {[cpulist |-> c, distance |-> d] :
        c \in {IF n = 0 THEN RangeFile(0, 1) ELSE OkFile(<<2>>), EmptyFile, MissingFile},
        d \in {OkFile(IF n = 0 THEN <<10, 20>> ELSE <<20, 10>>), EmptyFile}}

InitSave ==
    /\ pc = "save_call"
    /\ nodes_in = <<>>
    /\ nodes = <<>>
    /\ cache_level \in {-1, 0}
    /\ clusters = <<>>
    /\ warnings = {}
    /\ raised = NoExc
    /\ nodes_per_round = 0
    /\ cpu_list = <<>>
    /\ visited = <<>>
    /\ exit_code = NotExited
    /\ io_log = <<>>
    /\ FilesIdle
    /\ MonitorIdle
    /\ locals = NoLocals
    /\ cachefs \in [{0, 2} -> {<<>>, <<IdFile(0)>>}]
    /\ \E mem \in {OkFile(<<0>>), OkFile(<<0, 1>>), MissingFile, MalformedFile},
          smt \in BOOLEAN, sib1 \in {"ok", "ioerr"}, open_ok \in BOOLEAN,
          dirs \in {<<>>, <<0>>, <<0, 1>>, <<1, 0>>} :
          \E files \in [Range(dirs) -> SaveNodeFiles(0) \cup SaveNodeFiles(1)] :
              /\ \A n \in Range(dirs) : files[n] \in SaveNodeFiles(n)
              /\ sysfs = [has_memory |-> mem,
                          node_root_ok |-> TRUE,
                          node_dirs |-> dirs,
                          node |-> files,
                          siblings |-> [c \in 0..2 |->
                              FileIn(IF c = 1 THEN sib1 ELSE "ok", SiblingsOf(c, smt))],
                          outfile_ok |-> open_ok]

\* saved = save_cluster_info(filename, cache_level)
SaveClusterInfoCall ==
    /\ pc = "save_call"
    /\ \E r \in {SaveClusterInfo(sysfs, cachefs, cache_level)} :
           /\ clusters' = r.clusters
           /\ cluster_file' = r.cluster_file
           /\ warnings' = warnings \cup r.warnings
           /\ saved' = r.saved
    /\ pc' = "save_returned"
    /\ UNCHANGED <<lookup_id, logical_ids, cache_info, monitorVars, locals>>
    /\ UNCHANGED <<cachefs, nodes_in, nodes, cache_level, raised, nodes_per_round,
                   cpu_list, visited, exit_code, io_log, sysfs>>

NextSave == SaveClusterInfoCall

SpecSave == InitSave /\ [][NextSave]_vars

-----------------------------------------------------------------------------
(* C16: reading the core[c][n][k]= lines back *)

\* the reader of the cluster-description file is not part of the program: it
\* is the one the round trip of the design describes.  It keeps the lines
\* that start with core, reads the three indices and the comma-separated
\* ids, and places every tuple at its indices; an index no line names reads
\* as a node without cores or as an empty tuple.
ParsedNumbers == 0..9

ParseInt(text) == CHOOSE i \in ParsedNumbers : ToString(i) = text

SplitIds(pieces) ==
    [i \in 1..((Len(pieces) + 1) \div 2) |-> ParseInt(pieces[2 * i - 1])]

ParseCoreLine(line) ==
    [c |-> ParseInt(line[3]), n |-> ParseInt(line[6]), k |-> ParseInt(line[9]),
     ids |-> SplitIds(SubSeq(line, 12, Len(line)))]

CoreEntries(lines) ==
    {ParseCoreLine(lines[i]) : i \in {j \in 1..Len(lines) : lines[j] # <<>> /\ lines[j][1] = "core"}}

\* one more than the largest number of a set, 0 for the empty set
CountUpTo(S) == IF S = {} THEN 0 ELSE 1 + CHOOSE m \in S : \A x \in S : x <= m

ParseClusterFile(lines) ==
    LET es == CoreEntries(lines)
        TupleAt(c, n, k) ==
            IF \E e \in es : e.c = c /\ e.n = n /\ e.k = k
            THEN (CHOOSE e \in es : e.c = c /\ e.n = n /\ e.k = k).ids
            ELSE <<>>
        CoresOf(c, n) ==
            [k \in 1..CountUpTo({e.k : e \in {x \in es : x.c = c /\ x.n = n}}) |->
                TupleAt(c, n, k - 1)]
        NodesOf(c) ==
            [n \in 1..CountUpTo({e.n : e \in {x \in es : x.c = c}}) |-> CoresOf(c, n - 1)]
    IN  [c \in 1..CountUpTo({e.c : e \in es}) |-> NodesOf(c - 1)]

\* the ordered cluster / node / core-tuple structure handed to the writer
WrittenStructure ==
    [c \in 1..Len(clusters) |->
        [n \in 1..Len(clusters[c]) |-> clusters[c][n].cores_list]]

\* every node written has a core tuple and no tuple is empty
EveryNodeHasCores ==
    \A c \in 1..Len(clusters) : \A n \in 1..Len(clusters[c]) :
        /\ clusters[c][n].cores_list # <<>>
        /\ \A k \in 1..Len(clusters[c][n].cores_list) : clusters[c][n].cores_list[k] # <<>>

\* the part of C16 the code keeps: the round trip of clusters in which every
\* node has cores
RoundTripWhenEveryNodeHasCores ==
    pc = "save_returned" /\ saved /\ EveryNodeHasCores =>
        ParseClusterFile(cluster_file) = WrittenStructure

\* C16: for any clusters, the core[c][n][k]= lines save_cluster_info wrote,
\* read back, give the ordered cluster / node / core-tuple structure that was
\* written, nodes without core tuples included.
C16_ClusterFileRoundTrip ==
    pc = "save_returned" /\ saved => ParseClusterFile(cluster_file) = WrittenStructure

-----------------------------------------------------------------------------
(* ping_pong_pinning run one loop test at a time.  locals holds the loop    *)
(* variables of the call; smt_pos and cluster_idx are the values the         *)
(* for loops hand out next.                                                  *)

\* the cluster sizes and the core widths the stepwise runs start from
StepClusterSizes ==
    {<<>>, <<1>>, <<3>>, <<2, 1>>, <<1, 3>>, <<0, 2>>, <<2, 2>>, <<1, 1, 1>>}

StepCoreWidths == {<<>>, <<1>>, <<2, 1>>}

InitPingPongSteps ==
    /\ pc = "pp_enter"
    /\ cachefs = <<>>
    /\ nodes_in = <<>>
    /\ nodes = <<>>
    /\ cache_level = -1
    /\ \E sizes \in StepClusterSizes : \E odd, even \in StepCoreWidths :
           clusters = CutClusters(
               NodesOfShapes([k \in 1..Sum(sizes) |-> IF k % 2 = 1 THEN odd ELSE even]),
               sizes)
    /\ warnings = {}
    /\ raised = NoExc
    /\ nodes_per_round \in 0..MaxNpr
    /\ cpu_list = <<>>
    /\ visited = <<>>
    /\ exit_code = NotExited
    /\ io_log = <<>>
    /\ FilesIdle
    /\ MonitorIdle
    /\ locals = NoLocals
    /\ sysfs = NoSysfs

\* the early return, cpu_list = [] and max_smt = max(...)
PingPongEnter ==
    /\ pc = "pp_enter"
    /\ IF PingPongGuard(clusters, nodes_per_round)
       THEN /\ pc' = "pp_returned"
            /\ UNCHANGED <<raised, locals>>
       ELSE \E m \in {MaxSmt(clusters)} :
                IF m.raised # NoExc
                THEN /\ pc' = "pp_raised"
                     /\ raised' = m.raised
                     /\ UNCHANGED locals
                ELSE /\ pc' = "pp_for_smt"
                     /\ locals' = [max_smt |-> m.val, smt_pos |-> 0,
                                   cluster_positions |-> <<>>,
                                   cluster_idx |-> 0, nodes_processed |-> 0]
                     /\ UNCHANGED raised
    /\ UNCHANGED <<fileVars, monitorVars>>
    /\ UNCHANGED <<cachefs, nodes_in, nodes, cache_level, clusters, warnings,
                   nodes_per_round, cpu_list, visited, exit_code, io_log, sysfs>>

\* for smt_pos in range(max_smt): cluster_positions = [0] * len(clusters);
\* return cpu_list once the range is used up
PingPongForSmt ==
    /\ pc = "pp_for_smt"
    /\ IF locals.smt_pos < locals.max_smt
       THEN /\ locals' = [locals EXCEPT
                            !.cluster_positions = [c \in 1..Len(clusters) |-> 0]]
            /\ pc' = "pp_while_any"
       ELSE /\ pc' = "pp_returned"
            /\ UNCHANGED locals
    /\ UNCHANGED <<fileVars, monitorVars>>
    /\ UNCHANGED <<cachefs, nodes_in, nodes, cache_level, clusters, warnings, raised,
                   nodes_per_round, cpu_list, visited, exit_code, io_log, sysfs>>

\* while any(pos < len(cluster) ...): the test that starts a round or ends
\* the SMT position
PingPongWhileAny ==
    /\ pc = "pp_while_any"
    /\ IF AnyLeft(clusters, locals.cluster_positions)
       THEN /\ locals' = [locals EXCEPT !.cluster_idx = 0]
            /\ pc' = "pp_for_cluster"
       ELSE /\ locals' = [locals EXCEPT !.smt_pos = @ + 1]
            /\ pc' = "pp_for_smt"
    /\ UNCHANGED <<fileVars, monitorVars>>
    /\ UNCHANGED <<cachefs, nodes_in, nodes, cache_level, clusters, warnings, raised,
                   nodes_per_round, cpu_list, visited, exit_code, io_log, sysfs>>

\* for cluster_idx, cluster in enumerate(clusters): nodes_processed = 0
PingPongForCluster ==
    /\ pc = "pp_for_cluster"
    /\ IF locals.cluster_idx < Len(clusters)
       THEN /\ locals' = [locals EXCEPT !.nodes_processed = 0]
            /\ pc' = "pp_inner_while"
       ELSE /\ pc' = "pp_while_any"
            /\ UNCHANGED locals
    /\ UNCHANGED <<fileVars, monitorVars>>
    /\ UNCHANGED <<cachefs, nodes_in, nodes, cache_level, clusters, warnings, raised,
                   nodes_per_round, cpu_list, visited, exit_code, io_log, sysfs>>

\* the inner while loop: its test, and its body on one node
PingPongInnerWhile ==
    /\ pc = "pp_inner_while"
    /\ IF InnerCond(locals.nodes_processed, nodes_per_round,
                    locals.cluster_positions[locals.cluster_idx + 1],
                    clusters[locals.cluster_idx + 1])
       THEN \E r \in {VisitNode([cpu_list |-> cpu_list,
                                 cluster_positions |-> locals.cluster_positions,
                                 visited |-> visited],
                                clusters, locals.cluster_idx + 1, locals.smt_pos)} :
                /\ cpu_list' = r.cpu_list
                /\ visited' = r.visited
                /\ locals' = [locals EXCEPT !.cluster_positions = r.cluster_positions,
                                            !.nodes_processed = @ + 1]
                /\ UNCHANGED pc
       ELSE /\ locals' = [locals EXCEPT !.cluster_idx = @ + 1]
            /\ pc' = "pp_for_cluster"
            /\ UNCHANGED <<cpu_list, visited>>
    /\ UNCHANGED <<fileVars, monitorVars>>
    /\ UNCHANGED <<cachefs, nodes_in, nodes, cache_level, clusters, warnings, raised,
                   nodes_per_round, exit_code, io_log, sysfs>>

NextPingPongSteps ==
    \/ PingPongEnter
    \/ PingPongForSmt
    \/ PingPongWhileAny
    \/ PingPongForCluster
    \/ PingPongInnerWhile

SpecPingPongSteps == InitPingPongSteps /\ [][NextPingPongSteps]_vars

\* the interpreter keeps running the call: a loop test or a loop body that
\* can be executed is executed
FairPingPongSteps == SpecPingPongSteps /\ WF_vars(NextPingPongSteps)

-----------------------------------------------------------------------------
(* C17: termination of ping_pong_pinning *)

PingPongEnded == pc \in {"pp_returned", "pp_raised"}

PingPongInLoops ==
    pc \in {"pp_while_any", "pp_for_cluster", "pp_inner_while"}

\* no cursor is past the end of its cluster
CursorsWithinClusters ==
    PingPongInLoops =>
        \A c \in 1..Len(clusters) : locals.cluster_positions[c] <= Len(clusters[c])

\* the last nodes_processed visits are the nodes the cursor of the current
\* cluster moved over in this round
TurnIsCursorAdvance ==
    pc = "pp_inner_while" =>
        /\ locals.nodes_processed <= Len(visited)
        /\ \A j \in 1..locals.nodes_processed :
               visited[Len(visited) - locals.nodes_processed + j] =
                   <<locals.smt_pos, locals.cluster_idx,
                     locals.cluster_positions[locals.cluster_idx + 1]
                         - locals.nodes_processed + j - 1>>

\* a cluster's turn ends after at least one node unless its cursor was at
\* the end when the turn began
TurnAdvancesUnlessExhausted ==
    (/\ pc = "pp_inner_while"
     /\ ~InnerCond(locals.nodes_processed, nodes_per_round,
                   locals.cluster_positions[locals.cluster_idx + 1],
                   clusters[locals.cluster_idx + 1])) =>
        \/ locals.nodes_processed >= 1
        \/ /\ locals.nodes_processed = 0
           /\ locals.cluster_positions[locals.cluster_idx + 1]
                  = Len(clusters[locals.cluster_idx + 1])

\* no node is visited twice in one SMT slot
NoNodeVisitedTwice ==
    \A i, j \in 1..Len(visited) : visited[i] = visited[j] => i = j

\* at the return every node has been visited in every SMT slot
EveryNodeVisitedInEverySlot ==
    (pc = "pp_returned" /\ locals # NoLocals) =>
        \A smt_pos \in 0..locals.max_smt - 1 : \A place \in NodePlaces :
            \E i \in 1..Len(visited) : visited[i] = <<smt_pos, place[1], place[2]>>

\* C17: ping_pong_pinning terminates for every list of clusters and every
\* nodes_per_round >= 1; in each round every cluster whose cursor is not at
\* the end advances by at least one node, no cursor exceeds the length of its
\* cluster, and within one SMT slot every node of every cluster is visited
\* exactly once.
C17_PingPongTerminates ==
    /\ <>PingPongEnded
    /\ [](/\ CursorsWithinClusters
          /\ TurnIsCursorAdvance
          /\ TurnAdvancesUnlessExhausted
          /\ NoNodeVisitedTwice
          /\ EveryNodeVisitedInEverySlot)

\* a returned call that took more than one round over two clusters
C17_Witness ==
    /\ pc = "pp_returned"
    /\ locals # NoLocals
    /\ Len(clusters) >= 2
    /\ \E c \in 1..Len(clusters) : Len(clusters[c]) > nodes_per_round
    /\ Len(visited) = locals.max_smt * Cardinality(NodePlaces)
    /\ locals.max_smt >= 2

-----------------------------------------------------------------------------
(* C18: ping_pong_pinning against cluster_first_pinning *)

\* the length of the longest cluster
LongestCluster ==
    LET Longer(m, cluster) == IF Len(cluster) > m THEN Len(cluster) ELSE m
    IN  ForEach(Longer, 0, clusters)

\* there are clusters, none of them empty, and a round takes every cluster
\* whole or there is one cluster only
WholeClustersPerRound ==
    /\ clusters # <<>>
    /\ \A c \in 1..Len(clusters) : clusters[c] # <<>>
    /\ nodes_per_round >= 1
    /\ nodes_per_round >= LongestCluster \/ Len(clusters) = 1

\* the call of ping_pong_pinning ended as cluster_first_pinning ends on the
\* same clusters
SameAsClusterFirst ==
    /\ raised = ClusterFirstPinning(clusters).raised
    /\ cpu_list = ClusterFirstPinning(clusters).cpu_list

\* the part of C18 the code keeps: the two generators agree on the clusters
\* that pass the early return of cluster_first_pinning
SameAsClusterFirstPastGuard ==
    (/\ pc \in {"pp_returned", "pp_raised"}
     /\ WholeClustersPerRound
     /\ ~ClusterFirstGuard(clusters)) => SameAsClusterFirst

\* C18: for any non-empty clusters and any nodes_per_round not below the
\* length of the longest cluster, ping_pong_pinning returns the sequence
\* cluster_first_pinning returns; the same for a single cluster and any
\* positive nodes_per_round.
C18_PingPongAsClusterFirst ==
    (pc \in {"pp_returned", "pp_raised"} /\ WholeClustersPerRound) => SameAsClusterFirst

-----------------------------------------------------------------------------
(* memoryMonitor.py: MemoryMonitor._monitor_process, one statement group at *)
(* a time, with the monitored child and the signals of the operating system *)
(* beside it.  csv_rows and memory_batch hold the Step of each sample.       *)

Running == "running"
ChildExited == "exited"
Terminated == "terminated"

\* the monitor after __init__ (max_rows and batch_size passed
\* _validate_parameters) and after monitor() started the child inside
\* _signal_handler(); or before monitor() was ever called
InitMonitor ==
    /\ pc = "mon_enter"
    /\ cachefs = <<>>
    /\ nodes_in = <<>>
    /\ nodes = <<>>
    /\ cache_level = -1
    /\ clusters = <<>>
    /\ warnings = {}
    /\ raised = NoExc
    /\ nodes_per_round = 0
    /\ cpu_list = <<>>
    /\ visited = <<>>
    /\ exit_code = NotExited
    /\ io_log = <<>>
    /\ FilesIdle
    /\ max_rows \in 1..MaxRows
    /\ batch_size \in 1..MaxBatch
    /\ process \in {NoProcess, Running}
    /\ step = 0
    /\ row_count = 0
    /\ memory_batch = <<>>
    /\ csv_rows = <<>>
    /\ locals = NoLocals
    /\ sysfs = NoSysfs

\* what no statement of the monitor touches
MonitorFrame ==
    /\ UNCHANGED <<fileVars, locals, max_rows, batch_size>>
    /\ UNCHANGED <<cachefs, nodes_in, nodes, cache_level, clusters, warnings, raised,
                   nodes_per_round, cpu_list, visited, io_log, sysfs>>

\* writer.writerows(rows) of the samples of the batch
WriteBatch(rows, batch) == rows \o batch

\* process.terminate() reaches a child that is still running
Terminate(p) == IF p = Running THEN Terminated ELSE p

\* step = 0, row_count = 0, memory_batch = []; return without a process;
\* open the file and write the header
MonitorEnter ==
    /\ pc = "mon_enter"
    /\ step' = 0
    /\ row_count' = 0
    /\ memory_batch' = <<>>
    /\ csv_rows' = <<>>
    /\ pc' = IF process = NoProcess THEN "mon_ended" ELSE "mon_while"
    /\ UNCHANGED <<process, exit_code>>
    /\ MonitorFrame

\* while row_count < self.max_rows
MonitorWhile ==
    /\ pc = "mon_while"
    /\ pc' = IF row_count < max_rows THEN "mon_poll" ELSE "mon_remaining"
    /\ UNCHANGED <<process, step, row_count, memory_batch, csv_rows, exit_code>>
    /\ MonitorFrame

\* if self.process.poll() is not None: break
MonitorPoll ==
    /\ pc = "mon_poll"
    /\ pc' = IF process # Running THEN "mon_remaining" ELSE "mon_read"
    /\ UNCHANGED <<process, step, row_count, memory_batch, csv_rows, exit_code>>
    /\ MonitorFrame

\* mem_info = self._get_memory_info(pid): None breaks the loop, a sample is
\* stamped with step and appended; step += 1; row_count += 1
MonitorRead ==
    /\ pc = "mon_read"
    /\ \E readable \in IF process = Running THEN BOOLEAN ELSE {FALSE} :
           IF readable
           THEN /\ memory_batch' = Append(memory_batch, step)
                /\ step' = step + 1
                /\ row_count' = row_count + 1
                /\ pc' = "mon_batch"
           ELSE /\ pc' = "mon_remaining"
                /\ UNCHANGED <<step, row_count, memory_batch>>
    /\ UNCHANGED <<process, csv_rows, exit_code>>
    /\ MonitorFrame

\* if len(memory_batch) >= self.batch_size: write the batch and clear it
MonitorBatch ==
    /\ pc = "mon_batch"
    /\ IF Len(memory_batch) >= batch_size
       THEN /\ csv_rows' = WriteBatch(csv_rows, memory_batch)
            /\ memory_batch' = <<>>
       ELSE UNCHANGED <<csv_rows, memory_batch>>
    /\ pc' = "mon_max"
    /\ UNCHANGED <<process, step, row_count, exit_code>>
    /\ MonitorFrame

\* if row_count >= self.max_rows: terminate the child and break; else sleep
MonitorMax ==
    /\ pc = "mon_max"
    /\ IF row_count >= max_rows
       THEN /\ process' = Terminate(process)
            /\ pc' = "mon_remaining"
       ELSE /\ pc' = "mon_while"
            /\ UNCHANGED process
    /\ UNCHANGED <<step, row_count, memory_batch, csv_rows, exit_code>>
    /\ MonitorFrame

\* after the loop: if memory_batch: write it; the file is closed
MonitorRemaining ==
    /\ pc = "mon_remaining"
    /\ csv_rows' = IF memory_batch # <<>> THEN WriteBatch(csv_rows, memory_batch)
                   ELSE csv_rows
    /\ pc' = "mon_finally"
    /\ UNCHANGED <<process, step, row_count, memory_batch, exit_code>>
    /\ MonitorFrame

\* finally: a child still running is terminated; the final wait
MonitorFinally ==
    /\ pc = "mon_finally"
    /\ process' = Terminate(process)
    /\ pc' = "mon_ended"
    /\ UNCHANGED <<step, row_count, memory_batch, csv_rows, exit_code>>
    /\ MonitorFrame

\* the statements inside the with block of the file
MonitorInFile ==
    pc \in {"mon_while", "mon_poll", "mon_read", "mon_batch", "mon_max", "mon_remaining"}

\* the monitored command ends by itself
ChildExits ==
    /\ MonitorInFile
    /\ process = Running
    /\ process' = ChildExited
    /\ UNCHANGED <<pc, step, row_count, memory_batch, csv_rows, exit_code>>
    /\ MonitorFrame

\* SIGINT or SIGTERM arrives: signal_handler terminates the child and calls
\* sys.exit(0); SystemExit closes the file, passes both except clauses and
\* the finally block, and ends the interpreter
SignalHandler ==
    /\ MonitorInFile
    /\ process' = Terminate(process)
    /\ exit_code' = 0
    /\ pc' = "mon_exited"
    /\ UNCHANGED <<step, row_count, memory_batch, csv_rows>>
    /\ MonitorFrame

NextMonitor ==
    \/ MonitorEnter
    \/ MonitorWhile
    \/ MonitorPoll
    \/ MonitorRead
    \/ MonitorBatch
    \/ MonitorMax
    \/ MonitorRemaining
    \/ MonitorFinally
    \/ ChildExits
    \/ SignalHandler

SpecMonitor == InitMonitor /\ [][NextMonitor]_vars

-----------------------------------------------------------------------------
(* C19: the rows of the CSV file *)

\* Step = 0, 1, ..., n-1
StepsUpTo(n) == [k \in 1..n |-> k - 1]

\* inside the file block written and batched samples together are the
\* samples collected, in order
BatchingKeepsSamples ==
    MonitorInFile =>
        /\ row_count <= max_rows
        /\ step = row_count
        /\ csv_rows \o memory_batch = StepsUpTo(row_count)

\* the part of C19 the code keeps: when the loop ends by itself (child
\* exited, statm unreadable, max_rows reached) the file holds every sample
RowsCompleteWhenLoopEnds ==
    pc = "mon_ended" => csv_rows = StepsUpTo(row_count)

\* C19: for any max_rows >= 1 and batch_size >= 1 the data rows of the CSV
\* after _monitor_process ends are the samples collected, n <= max_rows rows
\* with Step = 0, 1, ..., n-1 in order, on every way the loop can end: child
\* exit, unreadable statm, max_rows reached, or a handled SIGINT / SIGTERM.
C19_CsvRowsAreSamples ==
    pc \in {"mon_ended", "mon_exited"} =>
        /\ row_count <= max_rows
        /\ csv_rows = StepsUpTo(row_count)


=============================================================================
